---------------------------- MODULE Spec2Model ----------------------------
(***************************************************************************)
(* A model of the extrinsic decoder (core/src/blocks/extrinsics.rs) and of *)
(* the metadata hasher (metadata/src/utils/validation.rs) of subxt.         *)
(*                                                                         *)
(* Conventions.  A byte is a number in 0..255 and a byte buffer a sequence *)
(* of bytes.  Rust offsets are kept 0-based as in the source: the slice    *)
(* bytes[a..b] is Slice(bytes, a, b).  Option<T> is a sequence of length   *)
(* at most one: None is <<>> and Some(x) is <<x>>.  A String is the        *)
(* sequence of its UTF-8 bytes, which is what as_bytes() hands to hash().  *)
(***************************************************************************)
EXTENDS Integers, Sequences, FiniteSets, TLC

VARIABLES
    metadata,    \* the immutable metadata snapshot in use
    ids,         \* ExtrinsicPartTypeIds resolved from the snapshot
    input,       \* decode_from: the extrinsic_bytes argument
    result,      \* decode_from: Option of the returned Result
    extrinsics,  \* Extrinsics.extrinsics: the raw blobs of the block
    iters,       \* the iterators handed out by Extrinsics::iter(), in order
    cache,       \* HashMap<u32, CachedHash> handed to get_type_hash
    ret,         \* Option of what the last hashing call returned
    hasher       \* MetadataHasher: specific_pallets / specific_runtime_apis

vars == <<metadata, ids, input, result, extrinsics, iters, cache, ret, hasher>>

-----------------------------------------------------------------------------
(* Generic helpers *)

None == <<>>
Some(x) == <<x>>
IsSome(o) == Len(o) = 1
Unwrap(o) == o[1]

\* bytes[a..b] with 0-based offsets, a <= b <= Len(bytes)
Slice(bytes, a, b) == SubSeq(bytes, a + 1, b)
\* bytes[a..]
SliceFrom(bytes, a) == SubSeq(bytes, a + 1, Len(bytes))

Max(a, b) == IF a >= b THEN a ELSE b

RECURSIVE SeqsUpTo(_, _)
\* all sequences over S of length at most n
SeqsUpTo(S, n) ==
    IF n = 0 THEN {<<>>}
    ELSE LET shorter == SeqsUpTo(S, n - 1)
         IN  shorter \cup {Append(s, x) : s \in {t \in shorter : Len(t) = n - 1}, x \in S}

-----------------------------------------------------------------------------
(* The type registry (scale_info::PortableRegistry): a function from the   *)
(* type ids 0..n-1 to type definitions.  Every TypeDef is a record of the  *)
(* same shape; the members a kind does not have are empty.                 *)

Field(name, ty) == [name |-> name, ty |-> ty]
Variant(name, index, fields) == [name |-> name, index |-> index, fields |-> fields]

TypeDef(kind, fields, variants, params, len, prim) ==
    [kind |-> kind, fields |-> fields, variants |-> variants,
     params |-> params, len |-> len, prim |-> prim]
Composite(fields)     == TypeDef("Composite", fields, <<>>, <<>>, 0, "")
VariantDef(variants)  == TypeDef("Variant", <<>>, variants, <<>>, 0, "")
SequenceDef(t)        == TypeDef("Sequence", <<>>, <<>>, <<t>>, 0, "")
ArrayDef(len, t)      == TypeDef("Array", <<>>, <<>>, <<t>>, len, "")
TupleDef(ts)          == TypeDef("Tuple", <<>>, <<>>, ts, 0, "")
Primitive(prim)       == TypeDef("Primitive", <<>>, <<>>, <<>>, 0, prim)
CompactDef(t)         == TypeDef("Compact", <<>>, <<>>, <<t>>, 0, "")
BitSequenceDef(o, s)  == TypeDef("BitSequence", <<>>, <<>>, <<o, s>>, 0, "")

\* the type ids a registry holds
TypeIdsOf(types) == DOMAIN types

-----------------------------------------------------------------------------
(* SCALE codec steps used by the decoder *)

\* crate::utils::strip_compact_prefix: decode a Compact<u64> from the front
\* of the buffer and hand back what follows it.  The decoded number is used
\* by no caller and is left out; what decides the outcome is how many bytes
\* the prefix takes and whether they are a canonical compact encoding.
strip_compact_prefix(bytes) ==
    LET fail == [ok |-> FALSE, rest |-> <<>>]
        take(n, valid) ==
            IF Len(bytes) >= n /\ valid
            THEN [ok |-> TRUE, rest |-> SliceFrom(bytes, n)] ELSE fail
    IN  IF Len(bytes) = 0 THEN fail
        ELSE LET prefix == bytes[1]
                 big == (prefix \div 4) + 4
             IN  CASE prefix % 4 = 0 -> take(1, TRUE)
                   [] prefix % 4 = 1 -> take(2, Len(bytes) >= 2 /\ bytes[2] >= 1)
                   [] prefix % 4 = 2 ->
                        take(4, Len(bytes) >= 4 /\ (bytes[3] >= 1 \/ bytes[4] >= 1))
                   [] OTHER ->
                        IF big > 8 THEN fail
                        ELSE take(1 + big,
                                  /\ Len(bytes) >= 1 + big
                                  /\ bytes[1 + big] >= (IF big = 4 THEN 64 ELSE 1))

\* a read that yields 0 at the end of the input instead of failing
DecodeU8_ZeroAtEnd(cursor) ==
    IF Len(cursor) = 0 THEN [ok |-> TRUE, value |-> 0, rest |-> <<>>]
    ELSE [ok |-> TRUE, value |-> cursor[1], rest |-> Tail(cursor)]

\* <u8 as Decode>::decode(cursor)
DecodeU8(cursor) ==
    IF Len(cursor) = 0 THEN [ok |-> FALSE, value |-> 0, rest |-> <<>>]
    ELSE [ok |-> TRUE, value |-> cursor[1], rest |-> Tail(cursor)]

\* the number of bytes of a fixed-width primitive
PrimSize(prim) ==
    CASE prim = "bool" -> 1
      [] prim = "u8"   -> 1
      [] prim = "u16"  -> 2
      [] prim = "u32"  -> 4

\* the compact-encoded length in front of a sequence: its value and the rest
DecodeCompactLen(cursor) ==
    LET s == strip_compact_prefix(cursor)
        value == CASE cursor[1] % 4 = 0 -> cursor[1] \div 4
                   [] cursor[1] % 4 = 1 -> (cursor[1] + 256 * cursor[2]) \div 4
                   [] OTHER -> 16384
    IN  IF s.ok THEN [ok |-> TRUE, value |-> value, rest |-> s.rest]
        ELSE [ok |-> FALSE, value |-> 0, rest |-> <<>>]

RECURSIVE SkipType(_, _, _)
RECURSIVE SkipEach(_, _, _)
RECURSIVE SkipRepeat(_, _, _, _)

\* scale_decode::visitor::decode_with_visitor(cursor, id, types, IgnoreVisitor):
\* the structural skip-decode.  It advances the cursor past the bytes a value
\* of type id takes and fails when the bytes do not encode one.
SkipType(types, id, cursor) ==
    LET fail == [ok |-> FALSE, rest |-> <<>>]
        def == types[id]
    IN  CASE def.kind = "Composite" ->
               SkipEach(types, [i \in 1..Len(def.fields) |-> def.fields[i].ty], cursor)
          [] def.kind = "Tuple" -> SkipEach(types, def.params, cursor)
          [] def.kind = "Array" -> SkipRepeat(types, def.params[1], def.len, cursor)
          [] def.kind = "Sequence" ->
               LET n == DecodeCompactLen(cursor)
               IN  IF n.ok THEN SkipRepeat(types, def.params[1], n.value, n.rest)
                   ELSE fail
          [] def.kind = "Variant" ->
               IF Len(cursor) = 0 THEN fail
               ELSE LET hit == {i \in 1..Len(def.variants) :
                                    def.variants[i].index = cursor[1]}
                    IN  IF hit = {} THEN fail
                        ELSE LET v == def.variants[CHOOSE i \in hit : \A j \in hit : i <= j]
                             IN  SkipEach(types,
                                          [i \in 1..Len(v.fields) |-> v.fields[i].ty],
                                          Tail(cursor))
          [] def.kind = "Compact" ->
               LET s == strip_compact_prefix(cursor)
               IN  IF s.ok THEN [ok |-> TRUE, rest |-> s.rest] ELSE fail
          [] def.kind = "Primitive" ->
               IF Len(cursor) < PrimSize(def.prim) THEN fail
               ELSE IF def.prim = "bool" /\ cursor[1] > 1 THEN fail
               ELSE [ok |-> TRUE, rest |-> SliceFrom(cursor, PrimSize(def.prim))]

\* skip a value of each of the type ids tys, in order
SkipEach(types, tys, cursor) ==
    IF Len(tys) = 0 THEN [ok |-> TRUE, rest |-> cursor]
    ELSE LET one == SkipType(types, tys[1], cursor)
         IN  IF one.ok THEN SkipEach(types, Tail(tys), one.rest) ELSE one

\* skip n values of type id.  A value that takes no bytes leaves the cursor
\* where it was, so every later one takes none either.
SkipRepeat(types, id, n, cursor) ==
    IF n = 0 THEN [ok |-> TRUE, rest |-> cursor]
    ELSE LET one == SkipType(types, id, cursor)
         IN  IF ~one.ok THEN one
             ELSE IF one.rest = cursor THEN one
             ELSE SkipRepeat(types, id, n - 1, one.rest)

-----------------------------------------------------------------------------
(* ExtrinsicDetails::decode_from and the accessors *)

SIGNATURE_MASK == 128
VERSION_MASK == 127
LATEST_EXTRINSIC_VERSION == 4

\* the version read without the mask: the signed bit counts as version
VersionOf_Unmasked(first_byte) == first_byte

\* first_byte & VERSION_MASK
VersionOf(first_byte) == first_byte % (VERSION_MASK + 1)
\* the signed flag read from bit 6
SignedBitOf_Bit6(first_byte) == (first_byte \div 64) % 2 # 0
\* first_byte & SIGNATURE_MASK != 0
SignedBitOf(first_byte) == (first_byte \div SIGNATURE_MASK) % 2 # 0

\* the value a failed decode_from carries in place of the details
NoDetails ==
    [index |-> 0, bytes |-> <<>>, signed_details |-> None,
     call_start_idx |-> 0, pallet_index |-> 0, variant_index |-> 0]

\* Result<ExtrinsicDetails, Error>.  err is "" for Ok, "Codec" for a
\* codec::Error, "Decode" for a scale_decode::Error and "UnsupportedVersion"
\* for BlockError::UnsupportedVersion(version).
Ok(details) == [ok |-> TRUE, err |-> "", version |-> 0, details |-> details]
Err(kind) == [ok |-> FALSE, err |-> kind, version |-> 0, details |-> NoDetails]
UnsupportedVersion(v) ==
    [ok |-> FALSE, err |-> "UnsupportedVersion", version |-> v, details |-> NoDetails]

\* ExtrinsicPartTypeIds::new
ExtrinsicPartTypeIds(md) ==
    [address |-> md.extrinsic.address_ty, call |-> md.extrinsic.call_ty,
     signature |-> md.extrinsic.signature_ty, extra |-> md.extrinsic.extra_ty]

\* the offsets taken from the cursor alone, the control byte not counted
DecodeSignedDetails_CursorOffsets(bytes, md, part_ids) ==
    LET cursor0 == SliceFrom(bytes, 1)
        a == SkipType(md.types, part_ids.address, cursor0)
        s == SkipType(md.types, part_ids.signature, a.rest)
        e == SkipType(md.types, part_ids.extra, s.rest)
    IN  IF ~a.ok \/ ~s.ok \/ ~e.ok
        THEN [ok |-> FALSE, cursor |-> <<>>, signed |-> None]
        ELSE [ok |-> TRUE, cursor |-> e.rest,
              signed |-> Some([address_start_idx |-> 0,
                               address_end_idx |-> Len(cursor0) - Len(a.rest),
                               signature_end_idx |-> Len(cursor0) - Len(s.rest),
                               extra_end_idx |-> Len(cursor0) - Len(e.rest)])]

\* the closure that skips over the address, the signature and the extra
\* fields of a signed extrinsic, recording where each ends
DecodeSignedDetails(bytes, md, part_ids) ==
    LET cursor0 == SliceFrom(bytes, 1)
        address_start_idx == Len(bytes) - Len(cursor0)
        a == SkipType(md.types, part_ids.address, cursor0)
        address_end_idx == Len(bytes) - Len(a.rest)
        s == SkipType(md.types, part_ids.signature, a.rest)
        signature_end_idx == Len(bytes) - Len(s.rest)
        e == SkipType(md.types, part_ids.extra, s.rest)
        extra_end_idx == Len(bytes) - Len(e.rest)
    IN  IF ~a.ok \/ ~s.ok \/ ~e.ok
        THEN [ok |-> FALSE, cursor |-> <<>>, signed |-> None]
        ELSE [ok |-> TRUE, cursor |-> e.rest,
              signed |-> Some([address_start_idx |-> address_start_idx,
                               address_end_idx |-> address_end_idx,
                               signature_end_idx |-> signature_end_idx,
                               extra_end_idx |-> extra_end_idx])]

\* decode_from, past the prefix, with the variant index taken as 0 when the
\* bytes end after the pallet index
DecodeStripped_OptionalVariant(index, bytes, md, part_ids) ==
    LET first == DecodeU8(bytes)
        first_byte == first.value
        version == VersionOf(first_byte)
        is_signed == SignedBitOf(first_byte)
        sd == IF is_signed THEN DecodeSignedDetails(bytes, md, part_ids)
              ELSE [ok |-> TRUE, cursor |-> SliceFrom(bytes, 1), signed |-> None]
        call_start_idx == Len(bytes) - Len(sd.cursor)
        pallet == DecodeU8(SliceFrom(bytes, call_start_idx))
        variant == DecodeU8_ZeroAtEnd(pallet.rest)
    IN  IF ~first.ok THEN Err("Codec")
        ELSE IF version # LATEST_EXTRINSIC_VERSION THEN UnsupportedVersion(version)
        ELSE IF ~sd.ok THEN Err("Decode")
        ELSE IF ~pallet.ok \/ ~variant.ok THEN Err("Codec")
        ELSE Ok([index |-> index, bytes |-> bytes, signed_details |-> sd.signed,
                 call_start_idx |-> call_start_idx,
                 pallet_index |-> pallet.value, variant_index |-> variant.value])

\* decode_from once the length prefix is gone: bytes is what the extrinsic
\* details keep, and its first byte is the control byte
DecodeStripped(index, bytes, md, part_ids) ==
    LET first == DecodeU8(bytes)
        first_byte == first.value
        version == VersionOf(first_byte)
        is_signed == SignedBitOf(first_byte)
        sd == IF is_signed THEN DecodeSignedDetails(bytes, md, part_ids)
              ELSE [ok |-> TRUE, cursor |-> SliceFrom(bytes, 1), signed |-> None]
        call_start_idx == Len(bytes) - Len(sd.cursor)
        pallet == DecodeU8(SliceFrom(bytes, call_start_idx))
        variant == DecodeU8(pallet.rest)
    IN  IF ~first.ok THEN Err("Codec")
        ELSE IF version # LATEST_EXTRINSIC_VERSION THEN UnsupportedVersion(version)
        ELSE IF ~sd.ok THEN Err("Decode")
        ELSE IF ~pallet.ok \/ ~variant.ok THEN Err("Codec")
        ELSE Ok([index |-> index, bytes |-> bytes, signed_details |-> sd.signed,
                 call_start_idx |-> call_start_idx,
                 pallet_index |-> pallet.value, variant_index |-> variant.value])

\* decode_from with the prefix left to the caller
decode_from_NoStrip(index, extrinsic_bytes, md, part_ids) ==
    DecodeStripped(index, extrinsic_bytes, md, part_ids)

\* ExtrinsicDetails::decode_from(index, extrinsic_bytes, metadata, ids):
\* the compact encoded prefix is removed first
decode_from(index, extrinsic_bytes, md, part_ids) ==
    LET stripped == strip_compact_prefix(extrinsic_bytes)
    IN  IF ~stripped.ok THEN Err("Codec")
        ELSE DecodeStripped(index, stripped.rest, md, part_ids)

is_signed(d) == IsSome(d.signed_details)
index(d) == d.index
bytes(d) == d.bytes
call_bytes(d) == SliceFrom(d.bytes, d.call_start_idx)
field_bytes(d) == SliceFrom(call_bytes(d), 2)
address_bytes(d) ==
    IF IsSome(d.signed_details)
    THEN LET e == Unwrap(d.signed_details)
         IN  Some(Slice(d.bytes, e.address_start_idx, e.address_end_idx))
    ELSE None
signature_bytes(d) ==
    IF IsSome(d.signed_details)
    THEN LET e == Unwrap(d.signed_details)
         IN  Some(Slice(d.bytes, e.address_end_idx, e.signature_end_idx))
    ELSE None
signed_extensions_bytes(d) ==
    IF IsSome(d.signed_details)
    THEN LET e == Unwrap(d.signed_details)
         IN  Some(Slice(d.bytes, e.signature_end_idx, e.extra_end_idx))
    ELSE None
pallet_index(d) == d.pallet_index
variant_index(d) == d.variant_index

-----------------------------------------------------------------------------
(* Metadata snapshots *)

\* String literals as UTF-8 bytes
StrA == <<97>>
StrB == <<98>>
StrX == <<120>>
StrY == <<121>>
StrTest == <<84, 101, 115, 116>>
StrFirst == <<70>>
StrSecond == <<83>>

ExtrinsicMetadata(version, address_ty, call_ty, signature_ty, extra_ty, exts) ==
    [version |-> version, address_ty |-> address_ty, call_ty |-> call_ty,
     signature_ty |-> signature_ty, extra_ty |-> extra_ty, signed_extensions |-> exts]

OuterEnums(call, event, error) ==
    [call_enum_ty |-> call, event_enum_ty |-> event, error_enum_ty |-> error]

PalletMetadata(name, idx, call_ty, event_ty, error_ty, constants, storage) ==
    [name |-> name, index |-> idx, call_ty |-> call_ty, event_ty |-> event_ty,
     error_ty |-> error_ty, constants |-> constants, storage |-> storage]

Metadata(types, pallets, extrinsic, runtime_ty, apis, outer_enums) ==
    [types |-> types, pallets |-> pallets, extrinsic |-> extrinsic,
     runtime_ty |-> runtime_ty, apis |-> apis, outer_enums |-> outer_enums]

\* a registry from the sequence of its type definitions: ids are 0..n-1
Registry(defs) == [id \in 0..(Len(defs) - 1) |-> defs[id + 1]]

\* The registry the decoder is run against: the unit type, u8, bool, an
\* address-like enum, Vec<u8>, a pair, the call enum of the pallet Test, the
\* outer call enum, and the call enum of a second pallet.
DecodeTypes ==
    Registry(<<
        TupleDef(<<>>),
        Primitive("u8"),
        Primitive("bool"),
        VariantDef(<<Variant(StrX, 0, <<>>), Variant(StrY, 1, <<Field(None, 1)>>)>>),
        SequenceDef(1),
        Composite(<<Field(Some(StrA), 2), Field(Some(StrB), 1)>>),
        VariantDef(<<Variant(StrA, 2, <<Field(Some(StrA), 1)>>)>>),
        VariantDef(<<Variant(StrTest, 0, <<Field(None, 6)>>),
                     Variant(StrSecond, 4, <<Field(None, 8)>>)>>),
        VariantDef(<<Variant(StrX, 0, <<>>), Variant(StrY, 132, <<Field(Some(StrA), 2)>>)>>)
    >>)

\* the snapshot of tests::metadata, with the address, signature and extra
\* types of the extrinsic format chosen among the registry's types, and
\* with two more pallets: one with calls and one without
DecodeMetadata(address_ty, signature_ty, extra_ty) ==
    Metadata(DecodeTypes,
             <<PalletMetadata(StrTest, 0, Some(6), None, None, <<>>, None),
               PalletMetadata(StrSecond, 4, Some(8), None, None, <<>>, None),
               PalletMetadata(StrX, 1, None, None, None, <<>>, None)>>,
             ExtrinsicMetadata(4, address_ty, 7, signature_ty, extra_ty, <<>>),
             0, <<>>, OuterEnums(7, 0, 0))

\* the (address, signature, extra) type ids the decoder is checked with
PartChoices == {<<0, 0, 0>>, <<1, 2, 0>>, <<3, 2, 0>>, <<0, 1, 4>>, <<1, 0, 1>>, <<5, 0, 3>>}

\* the bytes extrinsic buffers are built from: 4 and 132 are the control
\* bytes of version 4 (unsigned, signed), 3 and 131 those of version 3; as
\* the first byte of a length prefix 0, 4 and 132 are one-byte prefixes, 1
\* starts a two-byte prefix, 3 a five-byte one, and 131 is no prefix of a
\* Compact<u64>
ByteChoices == {0, 1, 3, 4, 131, 132}

MaxLen == 6

Buffers == SeqsUpTo(ByteChoices, MaxLen)

-----------------------------------------------------------------------------
(* Metadata lookups, ExtrinsicDetails::extrinsic_metadata and as_extrinsic *)

\* Error::Metadata(MetadataError::detail(arg))
MetadataError(detail, arg) ==
    [ok |-> FALSE, err |-> "Metadata", detail |-> detail, arg |-> arg]

\* Metadata::pallet_by_index_err(index): the pallet with that index, or
\* MetadataError::PalletIndexNotFound(index)
pallet_by_index_err(md, pallet_idx) ==
    LET hit == {k \in DOMAIN md.pallets : md.pallets[k].index = pallet_idx}
    IN  IF hit = {} THEN [ok |-> FALSE, pallet |-> None]
        ELSE [ok |-> TRUE, pallet |-> Some(md.pallets[CHOOSE k \in hit : \A j \in hit : k <= j])]

\* PalletMetadata::call_variant_by_index(index): the variant of the pallet's
\* call enum with that index, None when the pallet has no calls or its call
\* enum has no such variant
call_variant_by_index(md, pallet, variant_idx) ==
    IF ~IsSome(pallet.call_ty) THEN None
    ELSE IF md.types[Unwrap(pallet.call_ty)].kind # "Variant" THEN None
    ELSE LET variants == md.types[Unwrap(pallet.call_ty)].variants
             hit == {k \in DOMAIN variants : variants[k].index = variant_idx}
         IN  IF hit = {} THEN None
             ELSE Some(variants[CHOOSE k \in hit : \A j \in hit : k <= j])

\* the value a failed extrinsic_metadata carries in place of the pallet and
\* the variant
NoVariant == Variant(<<>>, 0, <<>>)
NoPallet == PalletMetadata(<<>>, 0, None, None, None, <<>>, None)

\* ExtrinsicDetails::extrinsic_metadata with the variant looked up first:
\* a missing variant is reported even when the pallet is missing
extrinsic_metadata_VariantFirst(d, md) ==
    LET p == pallet_by_index_err(md, pallet_index(d))
        v == IF p.ok THEN call_variant_by_index(md, Unwrap(p.pallet), variant_index(d))
             ELSE None
    IN  IF ~IsSome(v)
        THEN MetadataError("VariantIndexNotFound", variant_index(d))
                 @@ [pallet |-> NoPallet, variant |-> NoVariant]
        ELSE [ok |-> TRUE, err |-> "", detail |-> "", arg |-> 0,
              pallet |-> Unwrap(p.pallet), variant |-> Unwrap(v)]

\* ExtrinsicDetails::extrinsic_metadata
extrinsic_metadata(d, md) ==
    LET p == pallet_by_index_err(md, pallet_index(d))
        v == call_variant_by_index(md, Unwrap(p.pallet), variant_index(d))
    IN  IF ~p.ok
        THEN MetadataError("PalletIndexNotFound", pallet_index(d))
                 @@ [pallet |-> NoPallet, variant |-> NoVariant]
        ELSE IF ~IsSome(v)
        THEN MetadataError("VariantIndexNotFound", variant_index(d))
                 @@ [pallet |-> NoPallet, variant |-> NoVariant]
        ELSE [ok |-> TRUE, err |-> "", detail |-> "", arg |-> 0,
              pallet |-> Unwrap(p.pallet), variant |-> Unwrap(v)]

\* ExtrinsicDetails::pallet_name
pallet_name(d, md) ==
    LET em == extrinsic_metadata(d, md)
    IN  [ok |-> em.ok, err |-> em.err, detail |-> em.detail, arg |-> em.arg,
         name |-> em.pallet.name]

\* ExtrinsicDetails::variant_name
variant_name(d, md) ==
    LET em == extrinsic_metadata(d, md)
    IN  [ok |-> em.ok, err |-> em.err, detail |-> em.detail, arg |-> em.arg,
         name |-> em.variant.name]

\* a type implementing StaticExtrinsic: the constants PALLET and CALL and
\* the Rust types of the fields its DecodeAsFields implementation reads
StaticExtrinsic(pallet, call, fields) ==
    [PALLET |-> pallet, CALL |-> call, fields |-> fields]

\* E::decode_as_fields(cursor, fields, types): each field of E is read from
\* the bytes as the snapshot's type of the field at its position; it fails
\* when the number of fields differs, when the snapshot's type is not the
\* primitive the field of E takes, and when the bytes do not encode a value.
\* The value is the bytes of each field.
RECURSIVE DecodeFields(_, _, _, _, _)
DecodeFields(e_fields, cursor, fields, types, value) ==
    IF Len(e_fields) # Len(fields) THEN [ok |-> FALSE, value |-> <<>>]
    ELSE IF fields = <<>> THEN [ok |-> TRUE, value |-> value]
    ELSE LET def == types[Head(fields).ty]
             one == SkipType(types, Head(fields).ty, cursor)
         IN  IF def.kind # "Primitive" \/ def.prim # Head(e_fields) \/ ~one.ok
             THEN [ok |-> FALSE, value |-> <<>>]
             ELSE DecodeFields(Tail(e_fields), one.rest, Tail(fields), types,
                               Append(value, SubSeq(cursor, 1, Len(cursor) - Len(one.rest))))

decode_as_fields(E, cursor, fields, types) ==
    DecodeFields(E.fields, cursor, fields, types, <<>>)

\* the Result<Option<E>, Error> of as_extrinsic
AsExtrinsicOk(value) ==
    [ok |-> TRUE, err |-> "", detail |-> "", arg |-> 0, value |-> value]
AsExtrinsicErr(err, detail, arg) ==
    [ok |-> FALSE, err |-> err, detail |-> detail, arg |-> arg, value |-> None]

\* as_extrinsic comparing the call name alone
as_extrinsic_CallNameOnly(d, md, E) ==
    LET em == extrinsic_metadata(d, md)
        decoded == decode_as_fields(E, field_bytes(d), em.variant.fields, md.types)
    IN  IF ~em.ok THEN AsExtrinsicErr(em.err, em.detail, em.arg)
        ELSE IF em.variant.name = E.CALL
        THEN IF decoded.ok THEN AsExtrinsicOk(Some(decoded.value))
             ELSE AsExtrinsicErr("Decode", "", 0)
        ELSE AsExtrinsicOk(None)

\* ExtrinsicDetails::as_extrinsic::<E>
as_extrinsic(d, md, E) ==
    LET em == extrinsic_metadata(d, md)
        decoded == decode_as_fields(E, field_bytes(d), em.variant.fields, md.types)
    IN  IF ~em.ok THEN AsExtrinsicErr(em.err, em.detail, em.arg)
        ELSE IF em.pallet.name = E.PALLET /\ em.variant.name = E.CALL
        THEN IF decoded.ok THEN AsExtrinsicOk(Some(decoded.value))
             ELSE AsExtrinsicErr("Decode", "", 0)
        ELSE AsExtrinsicOk(None)

-----------------------------------------------------------------------------
(* The decoder as a state machine: one buffer is handed to decode_from *)

\* HashMap::new(), with the history fields empty
EmptyCache ==
    [entries |-> <<>>, expanded |-> <<>>, depth |-> 0, deepest |-> 0,
     inserts |-> <<>>, hits |-> <<>>]
NoHasher == [specific_pallets |-> None, specific_runtime_apis |-> None]

InitDecode ==
    /\ \E p \in PartChoices : metadata = DecodeMetadata(p[1], p[2], p[3])
    /\ ids = ExtrinsicPartTypeIds(metadata)
    /\ input \in Buffers
    /\ result = None
    /\ extrinsics = <<>>
    /\ iters = <<>>
    /\ cache = EmptyCache
    /\ ret = None
    /\ hasher = NoHasher

DecodeFrom ==
    /\ result = None
    /\ result' = Some(decode_from(0, input, metadata, ids))
    /\ UNCHANGED <<metadata, ids, input, extrinsics, iters, cache, ret, hasher>>

\* the types as_extrinsic is asked for: Second.y { bool }, and Test.y { bool }
\* whose call name is that of a call of the other pallet
DecodeStaticExtrinsics ==
    { StaticExtrinsic(StrSecond, StrY, <<"bool">>),
      StaticExtrinsic(StrTest, StrY, <<"bool">>) }

\* details.as_extrinsic::<E>() on the details decode_from returned
AsExtrinsic(E) ==
    /\ IsSome(result) /\ Unwrap(result).ok
    /\ ret = None
    /\ ret' = Some([op |-> "as_extrinsic", E |-> E,
                    res |-> as_extrinsic(Unwrap(result).details, metadata, E)])
    /\ UNCHANGED <<metadata, ids, input, result, extrinsics, iters, cache, hasher>>

\* details.pallet_name() and details.variant_name() on the details
\* decode_from returned
Names ==
    /\ IsSome(result) /\ Unwrap(result).ok
    /\ ret = None
    /\ ret' = Some([op |-> "names", E |-> StaticExtrinsic(<<>>, <<>>, <<>>),
                    res |-> [pallet_name |-> pallet_name(Unwrap(result).details, metadata),
                             variant_name |-> variant_name(Unwrap(result).details, metadata)]])
    /\ UNCHANGED <<metadata, ids, input, result, extrinsics, iters, cache, hasher>>

NextDecode ==
    \/ DecodeFrom
    \/ \E E \in DecodeStaticExtrinsics : AsExtrinsic(E)
    \/ Names

SpecDecode == InitDecode /\ [][NextDecode]_vars

-----------------------------------------------------------------------------
(* Claims about decode_from *)

\* the outcome of the decode_from call of this state
Outcome == Unwrap(result)
\* what the buffer holds after its compact length prefix
AfterPrefix == strip_compact_prefix(input)
IsDecodeError(r) == ~r.ok /\ r.err \in {"Codec", "Decode"}

\* C2: when the buffer holds a control byte (the first byte after the length
\* prefix) whose low 7 bits v are not 4, decode_from fails with
\* UnsupportedVersion(v), whatever the signed bit and the bytes after it; with
\* v = 4 it never fails with UnsupportedVersion; and UnsupportedVersion is
\* produced in no other case.
C2_UnsupportedVersion ==
    IsSome(result) =>
        LET has_control == AfterPrefix.ok /\ Len(AfterPrefix.rest) > 0
            v == AfterPrefix.rest[1] % 128
        IN  /\ has_control /\ v # 4 => Outcome = UnsupportedVersion(v)
            /\ has_control /\ v = 4 => Outcome.err # "UnsupportedVersion"
            /\ Outcome.err = "UnsupportedVersion" => has_control /\ v # 4

\* C2 witness: a signed control byte of version 3 followed by further bytes
\* was rejected as UnsupportedVersion(3)
C2_Witness ==
    /\ IsSome(result)
    /\ Outcome = UnsupportedVersion(3)
    /\ AfterPrefix.rest[1] >= 128
    /\ Len(AfterPrefix.rest) >= 3

\* C3: an empty buffer is a decode error, and so is every buffer that ends
\* before the pallet index and the variant index are read: every cut of a
\* buffer that decodes, made anywhere before the end of its variant index
\* byte, yields a decode error and no details; a failure carries no details.
C3_TruncatedIsDecodeError ==
    IsSome(result) =>
        /\ Len(input) = 0 => Outcome = Err("Codec")
        /\ ~Outcome.ok => Outcome.details = NoDetails
        /\ Outcome.ok =>
             LET d == Outcome.details
                 needed == (Len(input) - Len(d.bytes)) + d.call_start_idx + 2
             IN  /\ needed <= Len(input)
                 /\ \A k \in 0..(needed - 1) :
                        IsDecodeError(decode_from(0, SubSeq(input, 1, k), metadata, ids))

\* C3 witness: a signed extrinsic with a non-empty address and a non-empty
\* signature or extra decoded, so that its cuts end inside each part
C3_Witness ==
    /\ IsSome(result)
    /\ Outcome.ok
    /\ is_signed(Outcome.details)
    /\ Len(Unwrap(address_bytes(Outcome.details))) > 0
    /\ Len(Unwrap(signature_bytes(Outcome.details))) > 0

\* C4 as claimed: decode_from removes no prefix, so the first byte of the
\* buffer it is given is the control byte and the details keep the buffer.
C4_Original_NoPrefixRemoved ==
    IsSome(result) /\ Len(input) > 0 =>
        /\ VersionOf(input[1]) # 4 => Outcome = UnsupportedVersion(VersionOf(input[1]))
        /\ VersionOf(input[1]) = 4 => Outcome.err # "UnsupportedVersion"
        /\ Outcome.ok => /\ bytes(Outcome.details) = input
                         /\ is_signed(Outcome.details) = SignedBitOf(input[1])

\* C4 amended: decode_from removes one compact length prefix itself; the
\* details keep the bytes after it, and the first of those is the control
\* byte.  A buffer with no well-formed prefix is a codec error.
C4_PrefixRemovedByDecodeFrom ==
    IsSome(result) =>
        /\ ~AfterPrefix.ok => Outcome = Err("Codec")
        /\ Outcome.ok =>
             /\ AfterPrefix.ok
             /\ Len(AfterPrefix.rest) > 0
             /\ bytes(Outcome.details) = AfterPrefix.rest
             /\ VersionOf(AfterPrefix.rest[1]) = 4
             /\ is_signed(Outcome.details) = SignedBitOf(AfterPrefix.rest[1])
        /\ Outcome.err = "UnsupportedVersion" =>
             /\ AfterPrefix.ok
             /\ Len(AfterPrefix.rest) > 0
             /\ Outcome.version = VersionOf(AfterPrefix.rest[1])

\* C4 witness: the buffer of tests::unsupported_version_extrinsic, the
\* encoding <<4, 3>> of vec![3u8]: its first byte has version 4, the byte
\* after the one-byte prefix has version 3, and version 3 is what is reported
C4_Witness ==
    /\ IsSome(result)
    /\ input = <<4, 3>>
    /\ Outcome = UnsupportedVersion(3)

\* C5: the offsets of a decoded extrinsic cut its bytes, in order, into the
\* control byte, the address, the signature, the extra and the call.
C5_OffsetsPartitionBytes ==
    IsSome(result) /\ Outcome.ok =>
        LET d == Outcome.details
            control == <<d.bytes[1]>>
        IN  IF is_signed(d)
            THEN LET e == Unwrap(d.signed_details)
                 IN  /\ e.address_start_idx = 1
                     /\ e.address_start_idx <= e.address_end_idx
                     /\ e.address_end_idx <= e.signature_end_idx
                     /\ e.signature_end_idx <= e.extra_end_idx
                     /\ e.extra_end_idx = d.call_start_idx
                     /\ d.call_start_idx <= Len(d.bytes)
                     /\ bytes(d) = control \o Unwrap(address_bytes(d))
                                     \o Unwrap(signature_bytes(d))
                                     \o Unwrap(signed_extensions_bytes(d))
                                     \o call_bytes(d)
            ELSE /\ d.call_start_idx = 1
                 /\ bytes(d) = control \o call_bytes(d)

\* C5 witness: a signed extrinsic decoded whose signature and extra are
\* both non-empty
C5_Witness ==
    /\ IsSome(result)
    /\ Outcome.ok
    /\ is_signed(Outcome.details)
    /\ Len(Unwrap(signature_bytes(Outcome.details))) > 0
    /\ Len(Unwrap(signed_extensions_bytes(Outcome.details))) > 0

-----------------------------------------------------------------------------
(* Extrinsics::iter: the iterators over the blobs of a block *)

\* the closure of Extrinsics::iter with the failing blob stepped over
\* instead of ending the sequence
iter_next_SkipFailed(it, blobs, md, part_ids) ==
    IF it.index = it.num_extrinsics THEN [it |-> it, item |-> None]
    ELSE [it |-> [it EXCEPT !.index = it.index + 1],
          item |-> Some(decode_from(it.index, blobs[it.index + 1], md, part_ids))]

\* Extrinsics::iter with the captured index starting past the first
\* extrinsic of a block that has a second one
iter_new_AtSecond(blobs) ==
    [index |-> IF Len(blobs) > 1 THEN 1 ELSE 0, num_extrinsics |-> Len(blobs)]

\* Extrinsics::iter: the state the returned closure captures
iter_new(blobs) == [index |-> 0, num_extrinsics |-> Len(blobs)]

\* one call of next() on an iterator of Extrinsics::iter: the closure given
\* to std::iter::from_fn.  item is the Option<Result<ExtrinsicDetails, Error>>
\* returned and it the state the closure is left in.
iter_next(it, blobs, md, part_ids) ==
    IF it.index = it.num_extrinsics THEN [it |-> it, item |-> None]
    ELSE LET yield(r) ==
                 IF r.ok
                 THEN [it |-> [it EXCEPT !.index = it.index + 1], item |-> Some(r)]
                 ELSE [it |-> [it EXCEPT !.index = it.num_extrinsics], item |-> Some(r)]
         IN  yield(decode_from(it.index, blobs[it.index + 1], md, part_ids))

\* The blobs blocks are built from, for the snapshot whose address is a u8,
\* whose signature is a bool and whose extra is the unit type: two unsigned
\* extrinsics, a signed one, one of version 3, one cut short after the
\* pallet index, one whose signature is no bool, and an empty one.
BlobChoices ==
    { <<12, 4, 0, 2>>, <<12, 4, 1, 0>>, <<20, 132, 0, 1, 0, 2>>,
      <<4, 3>>, <<8, 4, 0>>, <<20, 132, 0, 3, 0, 2>>, <<>> }

IterMetadata == DecodeMetadata(1, 2, 0)

MaxBlock == 3
MaxIters == 2
\* how many next() calls past the length of the block an iterator is given
MaxExtraPolls == 1

InitIter ==
    /\ metadata = IterMetadata
    /\ ids = ExtrinsicPartTypeIds(metadata)
    /\ extrinsics \in SeqsUpTo(BlobChoices, MaxBlock)
    /\ iters = <<>>
    /\ input = <<>>
    /\ result = None
    /\ cache = EmptyCache
    /\ ret = None
    /\ hasher = NoHasher

\* Extrinsics::iter(): a new iterator; out is the record of what its next()
\* calls returned so far
Iter ==
    /\ Len(iters) < MaxIters
    /\ iters' = Append(iters, [it |-> iter_new(extrinsics), out |-> <<>>])
    /\ UNCHANGED <<metadata, ids, input, result, extrinsics, cache, ret, hasher>>

\* next() on the i-th iterator
IterNext(i) ==
    /\ Len(iters[i].out) < Len(extrinsics) + MaxExtraPolls
    /\ \E step \in {iter_next(iters[i].it, extrinsics, metadata, ids)} :
           iters' = [iters EXCEPT ![i] = [it |-> step.it,
                                          out |-> Append(iters[i].out, step.item)]]
    /\ UNCHANGED <<metadata, ids, input, result, extrinsics, cache, ret, hasher>>

NextIter == Iter \/ \E i \in 1..Len(iters) : IterNext(i)

SpecIter == InitIter /\ [][NextIter]_vars

\* blob k (0-based) decoded on its own
DecodeBlob(k) == decode_from(k, extrinsics[k + 1], metadata, ids)
\* the position of the first blob among decoded that failed, or their number
FirstFailingOf(decoded) ==
    LET failing == {k \in DOMAIN decoded : ~decoded[k].ok}
    IN  IF failing = {} THEN Len(extrinsics)
        ELSE CHOOSE k \in failing : \A j \in failing : k <= j
\* the position of the first blob of the block that fails to decode, or the
\* length of the block
FirstFailing == FirstFailingOf([k \in 0..(Len(extrinsics) - 1) |-> DecodeBlob(k)])

\* C1: the n-th value an iterator returns is Ok of blob n-1 for the blobs
\* before the first failing one, the error of the first failing blob at its
\* position, and None ever after: the error is yielded once and nothing
\* follows it, whether or not later blobs decode.
C1_IterFailFast ==
    LET decoded == [k \in 0..(Len(extrinsics) - 1) |-> DecodeBlob(k)]
        first == FirstFailingOf(decoded)
    IN  \A i \in 1..Len(iters) :
            \A n \in 1..Len(iters[i].out) :
                LET item == iters[i].out[n]
                IN  /\ n - 1 < first => item = Some(decoded[n - 1]) /\ Unwrap(item).ok
                    /\ n - 1 = first /\ first < Len(extrinsics) =>
                          item = Some(decoded[n - 1]) /\ ~Unwrap(item).ok
                    /\ n - 1 > first \/ n - 1 >= Len(extrinsics) => item = None

\* C1 witness: an iterator yielded an Ok, then the error of a failing blob,
\* then None where the next blob decodes on its own
C1_Witness ==
    \E i \in 1..Len(iters) :
        /\ Len(iters[i].out) >= 3
        /\ FirstFailing = 1
        /\ Len(extrinsics) = 3
        /\ DecodeBlob(2).ok
        /\ iters[i].out[3] = None

-----------------------------------------------------------------------------
(* Extrinsics::find, find_first and find_last *)

\* Result<FoundExtrinsic<T, E>, Error>: Ok(FoundExtrinsic { details, value })
FoundExtrinsic(details, value) ==
    [ok |-> TRUE, err |-> "", detail |-> "", arg |-> 0, version |-> 0,
     details |-> details, value |-> Some(value)]
\* Err(err) handed on by the closure of find
FindErr(err, detail, arg, version) ==
    [ok |-> FALSE, err |-> err, detail |-> detail, arg |-> arg, version |-> version,
     details |-> NoDetails, value |-> None]

\* Extrinsics::find::<E>: the state of the returned iterator
find_new(blobs) == iter_new(blobs)

\* next() of find with a non-match ending the call: None is returned for
\* the extrinsic that does not match
find_next_NoneOnSkip(it, blobs, md, part_ids, E) ==
    LET matched(s, a) ==
            IF ~a.ok THEN [it |-> s.it, item |-> Some(FindErr(a.err, a.detail, a.arg, 0))]
            ELSE IF ~IsSome(a.value) THEN [it |-> s.it, item |-> None]
            ELSE [it |-> s.it,
                  item |-> Some(FoundExtrinsic(Unwrap(s.item).details, Unwrap(a.value)))]
        mapped(s) ==
            IF ~IsSome(s.item) THEN [it |-> s.it, item |-> None]
            ELSE IF ~Unwrap(s.item).ok
            THEN [it |-> s.it,
                  item |-> Some(FindErr(Unwrap(s.item).err, "", 0, Unwrap(s.item).version))]
            ELSE matched(s, as_extrinsic(Unwrap(s.item).details, md, E))
    IN  mapped(iter_next(it, blobs, md, part_ids))

\* one call of next() on an iterator of Extrinsics::find::<E>: filter_map
\* takes items from iter() until the closure returns Some
RECURSIVE find_next(_, _, _, _, _)
find_next(it, blobs, md, part_ids, E) ==
    LET matched(s, a) ==
            IF ~a.ok THEN [it |-> s.it, item |-> Some(FindErr(a.err, a.detail, a.arg, 0))]
            ELSE IF ~IsSome(a.value) THEN find_next(s.it, blobs, md, part_ids, E)
            ELSE [it |-> s.it,
                  item |-> Some(FoundExtrinsic(Unwrap(s.item).details, Unwrap(a.value)))]
        mapped(s) ==
            IF ~IsSome(s.item) THEN [it |-> s.it, item |-> None]
            ELSE IF ~Unwrap(s.item).ok
            THEN [it |-> s.it,
                  item |-> Some(FindErr(Unwrap(s.item).err, "", 0, Unwrap(s.item).version))]
            ELSE matched(s, as_extrinsic(Unwrap(s.item).details, md, E))
    IN  mapped(iter_next(it, blobs, md, part_ids))

\* Option<Result<FoundExtrinsic, Error>>::transpose: Result<Option<..>, Error>,
\* with the item as found and it the state the iterator was dropped in
transpose(s) ==
    IF ~IsSome(s.item)
    THEN [ok |-> TRUE, err |-> "", detail |-> "", arg |-> 0, version |-> 0,
          found |-> None, it |-> s.it]
    ELSE IF Unwrap(s.item).ok
    THEN [ok |-> TRUE, err |-> "", detail |-> "", arg |-> 0, version |-> 0,
          found |-> s.item, it |-> s.it]
    ELSE [ok |-> FALSE, err |-> Unwrap(s.item).err, detail |-> Unwrap(s.item).detail,
          arg |-> Unwrap(s.item).arg, version |-> Unwrap(s.item).version,
          found |-> None, it |-> s.it]

\* Iterator::last on an iterator of find: next() until it returns None,
\* keeping the item before
RECURSIVE last(_, _, _, _, _, _)
last(it, item, blobs, md, part_ids, E) ==
    LET loop(s) == IF ~IsSome(s.item) THEN [it |-> s.it, item |-> item]
                   ELSE last(s.it, s.item, blobs, md, part_ids, E)
    IN  loop(find_next(it, blobs, md, part_ids, E))

\* find_first that scans to the end of the sequence
find_first_Last(blobs, md, part_ids, E) ==
    transpose(last(find_new(blobs), None, blobs, md, part_ids, E))

\* Extrinsics::find_first::<E>: self.find::<E>().next().transpose()
find_first(blobs, md, part_ids, E) ==
    transpose(find_next(find_new(blobs), blobs, md, part_ids, E))

\* find_last that stops at the first item
find_last_First(blobs, md, part_ids, E) ==
    transpose(find_next(find_new(blobs), blobs, md, part_ids, E))

\* Extrinsics::find_last::<E>: self.find::<E>().last().transpose()
find_last(blobs, md, part_ids, E) ==
    transpose(last(find_new(blobs), None, blobs, md, part_ids, E))

StrTestCall == <<84, 101, 115, 116, 67, 97, 108, 108>>

\* the registry of the blocks searched: (), u8, bool, the call enum of the
\* pallet Test with TestCall { a: u8, b: bool } at index 2 and x at index 0,
\* the call enum of the pallet Second with TestCall { a: bool } at index 2,
\* and the outer call enum
FindTypes ==
    Registry(<<
        TupleDef(<<>>),
        Primitive("u8"),
        Primitive("bool"),
        VariantDef(<<Variant(StrTestCall, 2, <<Field(Some(StrA), 1), Field(Some(StrB), 2)>>),
                     Variant(StrX, 0, <<>>)>>),
        VariantDef(<<Variant(StrTestCall, 2, <<Field(Some(StrA), 2)>>)>>),
        VariantDef(<<Variant(StrTest, 0, <<Field(None, 3)>>),
                     Variant(StrSecond, 1, <<Field(None, 4)>>)>>)
    >>)

\* the snapshot of tests::metadata with a second pallet: the address, the
\* signature and the extra of an extrinsic are ()
FindMetadata ==
    Metadata(FindTypes,
             <<PalletMetadata(StrTest, 0, Some(3), None, None, <<>>, None),
               PalletMetadata(StrSecond, 1, Some(4), None, None, <<>>, None)>>,
             ExtrinsicMetadata(4, 0, 5, 0, 0, <<>>),
             0, <<>>, OuterEnums(5, 0, 0))

\* the types find is asked for: Test.TestCall { u8, bool } and
\* Second.TestCall { bool }
StaticExtrinsics ==
    { StaticExtrinsic(StrTest, StrTestCall, <<"u8", "bool">>),
      StaticExtrinsic(StrSecond, StrTestCall, <<"bool">>) }

\* the blobs of the blocks searched: Test.TestCall(7, true); Test.TestCall
\* cut short after the u8; Second.TestCall(true); a call of a pallet the
\* snapshot does not have; an extrinsic of version 3; and Test.x
FindBlobChoices ==
    { <<20, 4, 0, 2, 7, 1>>, <<16, 4, 0, 2, 7>>, <<16, 4, 1, 2, 1>>, <<12, 4, 2, 0>>,
      <<4, 3>>, <<12, 4, 0, 0>> }

MaxFindBlock == 3

InitFind ==
    /\ metadata = FindMetadata
    /\ ids = ExtrinsicPartTypeIds(metadata)
    /\ extrinsics \in SeqsUpTo(FindBlobChoices, MaxFindBlock)
    /\ iters = <<>>
    /\ input = <<>>
    /\ result = None
    /\ cache = EmptyCache
    /\ ret = None
    /\ hasher = NoHasher

\* Extrinsics::find::<E>(): a new iterator; out is the record of what its
\* next() calls returned so far.  An iterator owns a clone of the blobs and
\* a counter of its own, so one iterator is followed at a time.
Find(E) ==
    /\ iters = <<>>
    /\ iters' = Append(iters, [E |-> E, it |-> find_new(extrinsics), out |-> <<>>])
    /\ UNCHANGED <<metadata, ids, input, result, extrinsics, cache, ret, hasher>>

\* next() on the i-th iterator of find
FindNext(i) ==
    /\ Len(iters[i].out) < Len(extrinsics) + MaxExtraPolls
    /\ \E step \in {find_next(iters[i].it, extrinsics, metadata, ids, iters[i].E)} :
           iters' = [iters EXCEPT ![i] = [E |-> iters[i].E, it |-> step.it,
                                          out |-> Append(iters[i].out, step.item)]]
    /\ UNCHANGED <<metadata, ids, input, result, extrinsics, cache, ret, hasher>>

\* Extrinsics::find_first::<E>()
FindFirst(E) ==
    /\ ret = None
    /\ ret' = Some([op |-> "find_first", E |-> E,
                    res |-> find_first(extrinsics, metadata, ids, E)])
    /\ UNCHANGED <<metadata, ids, input, result, extrinsics, iters, cache, hasher>>

\* Extrinsics::find_last::<E>()
FindLast(E) ==
    /\ ret = None
    /\ ret' = Some([op |-> "find_last", E |-> E,
                    res |-> find_last(extrinsics, metadata, ids, E)])
    /\ UNCHANGED <<metadata, ids, input, result, extrinsics, iters, cache, hasher>>

NextFind ==
    \/ \E E \in StaticExtrinsics : Find(E)
    \/ \E i \in 1..Len(iters) : FindNext(i)
    \/ \E E \in StaticExtrinsics : FindFirst(E)
    \/ \E E \in StaticExtrinsics : FindLast(E)

SpecFind == InitFind /\ [][NextFind]_vars

-----------------------------------------------------------------------------
(* Claims about find, find_first and find_last *)

\* the blobs of the block decoded on their own, in block order
DecodedBlock == [k \in 1..Len(extrinsics) |-> DecodeBlob(k - 1)]

\* every blob of the block decodes and as_extrinsic::<E> fails on none
NoErrorFor(E) ==
    \A k \in DOMAIN DecodedBlock :
        /\ DecodedBlock[k].ok
        /\ as_extrinsic(DecodedBlock[k].details, metadata, E).ok

\* the extrinsics of a block without errors that as_extrinsic::<E> gives a
\* value for, in block order, each with its details
MatchesOf(E) ==
    LET matches(r) == IsSome(as_extrinsic(r.details, metadata, E).value)
        matching == SelectSeq(DecodedBlock, matches)
    IN  [n \in DOMAIN matching |->
            FoundExtrinsic(matching[n].details,
                           Unwrap(as_extrinsic(matching[n].details, metadata, E).value))]

\* the resolved pallet and call names of the details d are those of E
NamesMatch(d, E) ==
    /\ pallet_name(d, metadata).ok
    /\ pallet_name(d, metadata).name = E.PALLET
    /\ variant_name(d, metadata).name = E.CALL

\* C13: when every blob of the block decodes and no as_extrinsic call
\* fails, the n-th value an iterator of find::<E>() returns is the n-th
\* extrinsic of the block whose resolved pallet and call names are E's,
\* with the details of its blob, and None once they are used up: the others
\* are skipped and yield nothing.
C13_FindYieldsMatchesInOrder ==
    \A i \in 1..Len(iters) :
        NoErrorFor(iters[i].E) =>
            /\ \A n \in 1..Len(iters[i].out) :
                   iters[i].out[n] = IF n <= Len(MatchesOf(iters[i].E))
                                     THEN Some(MatchesOf(iters[i].E)[n])
                                     ELSE None
            /\ \A k \in DOMAIN DecodedBlock :
                   NamesMatch(DecodedBlock[k].details, iters[i].E)
                       <=> \E n \in DOMAIN MatchesOf(iters[i].E) :
                               MatchesOf(iters[i].E)[n].details = DecodedBlock[k].details

\* an iterator of find::<Test.TestCall> over the block Test.x,
\* Test.TestCall(7, true), Second.TestCall(true) returned the second
\* extrinsic with its field bytes and then None
C13_Witness ==
    /\ Len(iters) = 1
    /\ iters[1].E = StaticExtrinsic(StrTest, StrTestCall, <<"u8", "bool">>)
    /\ extrinsics = << <<12, 4, 0, 0>>, <<20, 4, 0, 2, 7, 1>>, <<16, 4, 1, 2, 1>> >>
    /\ NoErrorFor(iters[1].E)
    /\ Len(iters[1].out) = 2
    /\ Unwrap(iters[1].out[1]).details.index = 1
    /\ Unwrap(iters[1].out[1]).value = Some(<< <<7>>, <<1>> >>)
    /\ iters[1].out[2] = None

\* C14: once an iterator of find::<E>() has returned an error, from
\* decoding a blob or from as_extrinsic::<E>() on a decoded extrinsic, every
\* later next() on it returns None.
C14_FindFailFast ==
    \A i \in 1..Len(iters) :
        \A n, m \in 1..Len(iters[i].out) :
            /\ n < m
            /\ IsSome(iters[i].out[n])
            /\ ~Unwrap(iters[i].out[n]).ok
            => iters[i].out[m] = None

\* an iterator of find::<Test.TestCall> over the block Test.TestCall cut
\* short, Test.TestCall(7, true) returned the decode error of as_extrinsic
\* on the first extrinsic and then the second extrinsic
C14_Witness ==
    /\ Len(iters) = 1
    /\ iters[1].E = StaticExtrinsic(StrTest, StrTestCall, <<"u8", "bool">>)
    /\ extrinsics = << <<16, 4, 0, 2, 7>>, <<20, 4, 0, 2, 7, 1>> >>
    /\ DecodeBlob(0).ok
    /\ Len(iters[1].out) = 2
    /\ ~Unwrap(iters[1].out[1]).ok
    /\ Unwrap(iters[1].out[1]).err = "Decode"
    /\ Unwrap(iters[1].out[2]).ok
    /\ Unwrap(iters[1].out[2]).details.index = 1

\* how the closure of find treats blob k (0-based) on its own: "error" when
\* decode_from or as_extrinsic::<E> fails, "match" when as_extrinsic gives a
\* value, "skip" otherwise
ClassOf(k, E) ==
    IF ~DecodeBlob(k).ok THEN "error"
    ELSE IF ~as_extrinsic(DecodeBlob(k).details, metadata, E).ok THEN "error"
    ELSE IF IsSome(as_extrinsic(DecodeBlob(k).details, metadata, E).value) THEN "match"
    ELSE "skip"

\* the first blob (0-based) that is not skipped, or the length of the block
FirstNotSkipped(E) ==
    LET hit == {k \in 0..(Len(extrinsics) - 1) : ClassOf(k, E) # "skip"}
    IN  IF hit = {} THEN Len(extrinsics) ELSE CHOOSE k \in hit : \A j \in hit : k <= j

\* the value find yields for the matching blob k
FoundAt(k, E) ==
    FoundExtrinsic(DecodeBlob(k).details,
                   Unwrap(as_extrinsic(DecodeBlob(k).details, metadata, E).value))

\* C15: find_first::<E>() returns the matching extrinsic with the smallest
\* block index when no error comes before it, and then no blob after it is
\* decoded: the iterator is dropped right behind it and the result is that
\* of the block cut off there, whatever follows; it returns Ok(None) when
\* every blob is skipped, and the error when an error comes before any
\* match.
C15_FindFirstStopsAtFirstMatch ==
    IsSome(ret) /\ Unwrap(ret).op = "find_first" =>
        LET E == Unwrap(ret).E
            res == Unwrap(ret).res
            first == FirstNotSkipped(E)
        IN  /\ first = Len(extrinsics) => res.ok /\ res.found = None
            /\ first < Len(extrinsics) /\ ClassOf(first, E) = "match" =>
                   /\ res.ok
                   /\ res.found = Some(FoundAt(first, E))
                   /\ res.it.index = first + 1
                   /\ find_first(SubSeq(extrinsics, 1, first + 1), metadata, ids, E).found
                          = res.found
            /\ first < Len(extrinsics) /\ ClassOf(first, E) = "error" =>
                   /\ ~res.ok
                   /\ res.found = None
                   /\ DecodeBlob(first).ok =>
                          res.err = as_extrinsic(DecodeBlob(first).details, metadata, E).err
                   /\ ~DecodeBlob(first).ok => res.err = DecodeBlob(first).err

\* find_first::<Test.TestCall> over the block Test.x, Test.TestCall(7, true),
\* an extrinsic of version 3 returned the second extrinsic, with the third
\* blob never decoded
C15_Witness ==
    /\ IsSome(ret)
    /\ Unwrap(ret).op = "find_first"
    /\ Unwrap(ret).E = StaticExtrinsic(StrTest, StrTestCall, <<"u8", "bool">>)
    /\ extrinsics = << <<12, 4, 0, 0>>, <<20, 4, 0, 2, 7, 1>>, <<4, 3>> >>
    /\ ~DecodeBlob(2).ok
    /\ Unwrap(ret).res.ok
    /\ Unwrap(Unwrap(ret).res.found).details.index = 1
    /\ Unwrap(ret).res.it.index = 2

\* the blobs find scans: those up to and including the first one that
\* decode_from fails on
Scanned == 0..(IF FirstFailing < Len(extrinsics) THEN FirstFailing
               ELSE Len(extrinsics) - 1)

\* the last scanned blob (0-based) that is not skipped, or -1
LastNotSkipped(E) ==
    LET hit == {k \in Scanned : ClassOf(k, E) # "skip"}
    IN  IF hit = {} THEN -1 ELSE CHOOSE k \in hit : \A j \in hit : k >= j

\* the last scanned blob (0-based) that matches, or -1
LastMatch(E) ==
    LET hit == {k \in Scanned : ClassOf(k, E) = "match"}
    IN  IF hit = {} THEN -1 ELSE CHOOSE k \in hit : \A j \in hit : k >= j

\* C16 as claimed: find_last::<E>() returns the matching extrinsic with the
\* greatest block index of the sequence of find, and Ok(None) when that
\* sequence has no match.
C16_Original_FinalMatch ==
    IsSome(ret) /\ Unwrap(ret).op = "find_last" =>
        LET E == Unwrap(ret).E
            res == Unwrap(ret).res
        IN  /\ LastMatch(E) >= 0 => res.ok /\ res.found = Some(FoundAt(LastMatch(E), E))
            /\ LastMatch(E) < 0 => res.ok /\ res.found = None

\* C16 amended: find_last::<E>() runs the iterator of find to its end and
\* returns its last item: the matching extrinsic with the greatest block
\* index when nothing but skipped extrinsics follow it, the error when the
\* last item is an error (matches before it are lost, and an error of
\* as_extrinsic before the last item is dropped), and Ok(None) when every
\* blob is skipped.
C16_FindLastReturnsLastItem ==
    IsSome(ret) /\ Unwrap(ret).op = "find_last" =>
        LET E == Unwrap(ret).E
            res == Unwrap(ret).res
            final == LastNotSkipped(E)
        IN  /\ res.it.index = Len(extrinsics)
            /\ final < 0 => res.ok /\ res.found = None
            /\ final >= 0 /\ ClassOf(final, E) = "match" =>
                   /\ res.ok
                   /\ res.found = Some(FoundAt(final, E))
                   /\ final = LastMatch(E)
            /\ final >= 0 /\ ClassOf(final, E) = "error" =>
                   /\ ~res.ok
                   /\ res.found = None
                   /\ DecodeBlob(final).ok =>
                          res.err = as_extrinsic(DecodeBlob(final).details, metadata, E).err
                   /\ ~DecodeBlob(final).ok => res.err = DecodeBlob(final).err

\* find_last::<Test.TestCall> over the block Test.TestCall(7, true),
\* Test.TestCall(7, true), Test.x returned the second extrinsic
C16_Witness ==
    /\ IsSome(ret)
    /\ Unwrap(ret).op = "find_last"
    /\ Unwrap(ret).E = StaticExtrinsic(StrTest, StrTestCall, <<"u8", "bool">>)
    /\ extrinsics = << <<20, 4, 0, 2, 7, 1>>, <<20, 4, 0, 2, 7, 1>>, <<12, 4, 0, 0>> >>
    /\ ClassOf(0, Unwrap(ret).E) = "match"
    /\ Unwrap(ret).res.ok
    /\ Unwrap(Unwrap(ret).res.found).details.index = 1
    /\ Unwrap(Unwrap(ret).res.found).value = Some(<< <<7>>, <<1>> >>)

-----------------------------------------------------------------------------
(* The hashing primitives of validation.rs.  twox_256 is taken as          *)
(* collision-free: a digest is kept symbolically.  The data handed to hash *)
(* is a sequence of byte runs, each run either concrete bytes or the 32    *)
(* bytes of a digest.  A digest [lit, h] stands for the 32 bytes lit XORed *)
(* with the outputs of hash on each of the data of h, so that XOR of       *)
(* digests is the bytewise XOR of lit and the symmetric difference of h.   *)

\* the number of bytes hash produces
HASH_LEN == 32

\* discriminants of #[repr(u8)] enum TypeBeingHashed
TypeBeingHashed ==
    [Composite |-> 0, Variant |-> 1, Sequence |-> 2, Array |-> 3, Tuple |-> 4,
     Primitive |-> 5, Compact |-> 6, BitSequence |-> 7]

\* `primitive as u8` for scale_info::TypeDefPrimitive
PrimitiveAsU8 ==
    [bool |-> 0, char |-> 1, str |-> 2, u8 |-> 3, u16 |-> 4, u32 |-> 5, u64 |-> 6,
     u128 |-> 7, u256 |-> 8, i8 |-> 9, i16 |-> 10, i32 |-> 11, i64 |-> 12,
     i128 |-> 13, i256 |-> 14]

RECURSIVE XorBits(_, _, _)
\* a ^ b on the low n bits
XorBits(a, b, n) ==
    IF n = 0 THEN 0
    ELSE ((a + b) % 2) + 2 * XorBits(a \div 2, b \div 2, n - 1)

\* the function f on 1..HASH_LEN as an array of HASH_LEN bytes
ByteArray(f) == f \o <<>>

\* [0u8; HASH_LEN]
Zeros == ByteArray([i \in 1..HASH_LEN |-> 0])

\* [b; HASH_LEN] as a digest
Filled(b) == [lit |-> IF b = 0 THEN Zeros ELSE ByteArray([i \in 1..HASH_LEN |-> b]), h |-> {}]
\* a concrete array of HASH_LEN bytes as a digest
Literal(arr) == [lit |-> arr, h |-> {}]
\* a byte slice as the data of hash: one run of concrete bytes
Bytes(data) == <<[lit |-> data, h |-> {}]>>

\* hash(data): twox_256
hash(data) == [lit |-> Zeros, h |-> {data}]

\* xor(a, b)
xor(a, b) ==
    [lit |-> IF a.lit = Zeros THEN b.lit
             ELSE IF b.lit = Zeros THEN a.lit
             ELSE ByteArray([i \in 1..HASH_LEN |-> XorBits(a.lit[i], b.lit[i], 8)]),
     h   |-> (a.h \ b.h) \cup (b.h \ a.h)]

\* concat_and_hash_n!: the arguments are copied one after the other into
\* one buffer, which is hashed
concat_and_hash2(a, b) == hash(<<a, b>>)
concat_and_hash3(a, b, c) == hash(<<a, b, c>>)
concat_and_hash4(a, b, c, d) == hash(<<a, b, c, d>>)
concat_and_hash5(a, b, c, d, e) == hash(<<a, b, c, d, e>>)

\* u32::to_be_bytes
to_be_bytes(n) ==
    <<(n \div 16777216) % 256, (n \div 65536) % 256, (n \div 256) % 256, n % 256>>

-----------------------------------------------------------------------------
(* Type hashing: get_type_hash and the functions it recurses through.      *)
(* The functions take `cache: &mut HashMap<u32, CachedHash>`; here each    *)
(* takes the cache and returns [hash, cache]: the digest and the cache it  *)
(* leaves.  Next to the map (entries) the cache carries five               *)
(* history fields the source does not have: expanded, the ids whose        *)
(* definition was handed to get_type_def_hash, in order; depth, the number *)
(* of get_type_hash calls currently past the lookup; deepest, the largest  *)
(* depth so far; inserts, one record for each cache.insert, in order, with *)
(* the id, what the map held for it and what was stored; hits, one record  *)
(* for each get_type_hash call that found its id marked Recursive, with    *)
(* the id and the map as the call found it.                                *)

\* enum CachedHash
CachedHash_Recursive == [tag |-> "Recursive", hash |-> Filled(0)]
CachedHash_Hash(h) == [tag |-> "Hash", hash |-> h]

\* CachedHash::hash that gives the magical value for a finished entry too
CachedHash_hash_Sentinel(entry) == Filled(123)

\* CachedHash::hash
CachedHash_hash(entry) ==
    IF entry.tag = "Hash" THEN entry.hash ELSE Filled(123)

\* concat_and_hash2(a, b) where b is the digest of the result r of a call
\* that went through the cache: the digest, and the cache the call left
concat_and_hash2_of(a, r) == [hash |-> concat_and_hash2(a, r.hash), cache |-> r.cache]

\* cache.insert(id, entry)
cache_insert(hcache, id, entry) ==
    [hcache EXCEPT !.entries = [k \in (DOMAIN hcache.entries) \cup {id} |->
                                    IF k = id THEN entry ELSE hcache.entries[k]],
                   !.inserts = Append(@, [id   |-> id,
                                          from |-> IF id \in DOMAIN hcache.entries
                                                   THEN hcache.entries[id].tag ELSE "Absent",
                                          to   |-> entry])]

\* the cache as the early return of get_type_hash leaves it: the map is not
\* touched; a return on a Recursive entry is recorded
cache_found(hcache, id) ==
    IF hcache.entries[id].tag = "Recursive"
    THEN [hcache EXCEPT !.hits = Append(@, [id |-> id, entries |-> hcache.entries])]
    ELSE hcache

RECURSIVE get_type_hash(_, _, _)
RECURSIVE get_type_def_hash(_, _, _)
RECURSIVE get_type_def_variant_hash(_, _, _, _)
RECURSIVE get_variant_hash(_, _, _)
RECURSIVE get_field_hash(_, _, _)
RECURSIVE XorFields(_, _, _, _)
RECURSIVE XorVariants(_, _, _, _, _)
RECURSIVE ConcatTupleFields(_, _, _, _)

\* get_field_hash with the name of the field left out of the digest
get_field_hash_NoName(registry, field, hcache) ==
    concat_and_hash2_of(Filled(0), get_type_hash(registry, field.ty, hcache))

\* get_field_hash
get_field_hash(registry, field, hcache) ==
    LET field_name_bytes ==
            IF IsSome(field.name) THEN hash(Bytes(Unwrap(field.name))) ELSE Filled(0)
    IN  concat_and_hash2_of(field_name_bytes, get_type_hash(registry, field.ty, hcache))

\* fields.iter().fold(acc, |bytes, field| xor(bytes, get_field_hash(registry, field, cache)))
XorFields(registry, fields, acc, hcache) ==
    IF fields = <<>> THEN [hash |-> acc, cache |-> hcache]
    ELSE LET rest(f) == XorFields(registry, Tail(fields), xor(acc, f.hash), f.cache)
         IN  rest(get_field_hash(registry, Head(fields), hcache))

\* get_variant_hash with the index of the variant made part of the digest
get_variant_hash_WithIndex(registry, var, hcache) ==
    LET both(f) == [hash  |-> concat_and_hash3(hash(Bytes(var.name)), Filled(var.index), f.hash),
                    cache |-> f.cache]
    IN  both(XorFields(registry, var.fields, Filled(0), hcache))

\* get_variant_hash
get_variant_hash(registry, var, hcache) ==
    concat_and_hash2_of(hash(Bytes(var.name)),
                        XorFields(registry, var.fields, Filled(0), hcache))

\* only_these_variants.map(|o| o.contains(&name)).unwrap_or(true)
should_hash(only_these, name) ==
    IF IsSome(only_these)
    THEN \E k \in DOMAIN Unwrap(only_these) : Unwrap(only_these)[k] = name
    ELSE TRUE

\* the fold of get_type_def_variant_hash over variant.variants
XorVariants(registry, variants, only_these_variants, acc, hcache) ==
    IF variants = <<>> THEN [hash |-> acc, cache |-> hcache]
    ELSE IF should_hash(only_these_variants, Head(variants).name)
    THEN LET rest(v) == XorVariants(registry, Tail(variants), only_these_variants,
                                    xor(acc, v.hash), v.cache)
         IN  rest(get_variant_hash(registry, Head(variants), hcache))
    ELSE XorVariants(registry, Tail(variants), only_these_variants, acc, hcache)

\* get_type_def_variant_hash
get_type_def_variant_hash(registry, variant, only_these_variants, hcache) ==
    concat_and_hash2_of(Filled(TypeBeingHashed.Variant),
                        XorVariants(registry, variant.variants, only_these_variants,
                                    Filled(0), hcache))

\* the loop of the Tuple arm of get_type_def_hash
ConcatTupleFields(registry, fields, acc, hcache) ==
    IF fields = <<>> THEN [hash |-> acc, cache |-> hcache]
    ELSE LET rest(t) == ConcatTupleFields(registry, Tail(fields),
                                          concat_and_hash2(acc, t.hash), t.cache)
         IN  rest(get_type_hash(registry, Head(fields), hcache))

\* array_id_bytes with the length cut to its lowest byte
array_id_bytes_LowByte(len) ==
    Literal(ByteArray([i \in 1..HASH_LEN |->
                IF i = 1 THEN TypeBeingHashed.Array
                ELSE IF i = 2 THEN len % 256 ELSE 0]))

\* array_id_bytes of the Array arm of get_type_def_hash
array_id_bytes(len) ==
    Literal(ByteArray([i \in 1..HASH_LEN |->
                IF i = 1 THEN TypeBeingHashed.Array
                ELSE IF i <= 5 THEN to_be_bytes(len)[i - 1] ELSE 0]))

\* a run of get_type_hash calls on one cache, in the order of type_ids:
\* hashes are the digests returned, cache the cache left
RECURSIVE TypeHashes(_, _, _, _)
TypeHashes(registry, type_ids, hashes, hcache) ==
    IF type_ids = <<>> THEN [hashes |-> hashes, cache |-> hcache]
    ELSE LET rest(t) == TypeHashes(registry, Tail(type_ids), Append(hashes, t.hash), t.cache)
         IN  rest(get_type_hash(registry, Head(type_ids), hcache))

\* get_type_def_hash
get_type_def_hash(registry, ty_def, hcache) ==
    CASE ty_def.kind = "Composite" ->
            concat_and_hash2_of(Filled(TypeBeingHashed.Composite),
                                XorFields(registry, ty_def.fields, Filled(0), hcache))
      [] ty_def.kind = "Variant" ->
            get_type_def_variant_hash(registry, ty_def, None, hcache)
      [] ty_def.kind = "Sequence" ->
            concat_and_hash2_of(Filled(TypeBeingHashed.Sequence),
                                get_type_hash(registry, ty_def.params[1], hcache))
      [] ty_def.kind = "Array" ->
            concat_and_hash2_of(array_id_bytes(ty_def.len),
                                get_type_hash(registry, ty_def.params[1], hcache))
      [] ty_def.kind = "Tuple" ->
            ConcatTupleFields(registry, ty_def.params,
                              hash(Bytes(<<TypeBeingHashed.Tuple>>)), hcache)
      [] ty_def.kind = "Primitive" ->
            [hash  |-> hash(Bytes(<<TypeBeingHashed.Primitive, PrimitiveAsU8[ty_def.prim]>>)),
             cache |-> hcache]
      [] ty_def.kind = "Compact" ->
            concat_and_hash2_of(Filled(TypeBeingHashed.Compact),
                                get_type_hash(registry, ty_def.params[1], hcache))
      [] ty_def.kind = "BitSequence" ->
            LET both(t) ==
                    [hash  |-> concat_and_hash3(Filled(TypeBeingHashed.BitSequence),
                                                t.hashes[1], t.hashes[2]),
                     cache |-> t.cache]
            IN  both(TypeHashes(registry, <<ty_def.params[1], ty_def.params[2]>>,
                                <<>>, hcache))

\* get_type_hash past the lookup where the entry is left as it was marked
\* once the definition is hashed
ExpandType_NoFinish(registry, id, hcache) ==
    LET marked == [cache_insert(hcache, id, CachedHash_Recursive) EXCEPT
                       !.expanded = Append(hcache.expanded, id),
                       !.depth    = hcache.depth + 1,
                       !.deepest  = Max(hcache.deepest, hcache.depth + 1)]
        finish(r) == [hash |-> r.hash, cache |-> [r.cache EXCEPT !.depth = hcache.depth]]
    IN  finish(get_type_def_hash(registry, registry[id], marked))

\* get_type_hash past the lookup: the id is marked Recursive, its definition
\* is hashed, and the entry is replaced by the digest
ExpandType(registry, id, hcache) ==
    LET marked == [cache_insert(hcache, id, CachedHash_Recursive) EXCEPT
                       !.expanded = Append(hcache.expanded, id),
                       !.depth    = hcache.depth + 1,
                       !.deepest  = Max(hcache.deepest, hcache.depth + 1)]
        finish(r) ==
            [hash  |-> r.hash,
             cache |-> [cache_insert(r.cache, id, CachedHash_Hash(r.hash)) EXCEPT
                            !.depth = hcache.depth]]
    IN  finish(get_type_def_hash(registry, registry[id], marked))

\* get_type_hash that returns early on a Recursive entry only: a finished
\* digest in the cache is not reused
get_type_hash_RecursiveOnly(registry, id, hcache) ==
    IF id \in DOMAIN hcache.entries /\ hcache.entries[id].tag = "Recursive"
    THEN [hash |-> CachedHash_hash(hcache.entries[id]), cache |-> hcache]
    ELSE ExpandType(registry, id, hcache)

\* get_type_hash that makes the type id part of the digest
get_type_hash_WithId(registry, id, hcache) ==
    IF id \in DOMAIN hcache.entries
    THEN [hash |-> CachedHash_hash(hcache.entries[id]), cache |-> hcache]
    ELSE concat_and_hash2_of(Filled(id), ExpandType(registry, id, hcache))

\* get_type_hash that stores the magical value as the digest of a type it
\* finds marked Recursive
get_type_hash_StoreSentinel(registry, id, hcache) ==
    IF id \in DOMAIN hcache.entries
    THEN [hash  |-> CachedHash_hash(hcache.entries[id]),
          cache |-> IF hcache.entries[id].tag = "Recursive"
                    THEN cache_insert(cache_found(hcache, id), id,
                                      CachedHash_Hash(CachedHash_hash(hcache.entries[id])))
                    ELSE hcache]
    ELSE ExpandType(registry, id, hcache)

\* get_type_hash
get_type_hash(registry, id, hcache) ==
    IF id \in DOMAIN hcache.entries
    THEN [hash |-> CachedHash_hash(hcache.entries[id]), cache |-> cache_found(hcache, id)]
    ELSE ExpandType(registry, id, hcache)

-----------------------------------------------------------------------------
(* get_type_hash as a state machine: calls on the types of one registry    *)
(* against one cache, which can be replaced by a new one                   *)

\* the number of type ids of a registry
MaxTypes == 3
TypeIds == 0..(MaxTypes - 1)

\* the definitions the types past the first are drawn from, in a registry
\* of the type ids type_ids: u8, and the one-field structs of tests::A and
\* tests::B over every type id
LeanDefsOver(type_ids) ==
    {Primitive("u8")}
        \cup {Composite(<<Field(Some(StrA), k)>>) : k \in type_ids}
        \cup {Composite(<<Field(Some(StrB), k)>>) : k \in type_ids}

\* the definitions the first type is drawn from, in a registry of the type
\* ids type_ids: every kind of TypeDef
RichDefsOver(type_ids) ==
    LeanDefsOver(type_ids)
        \cup {Primitive("bool"), TupleDef(<<>>)}
        \cup {Composite(<<Field(Some(StrX), i), Field(Some(StrY), j)>>) : i, j \in type_ids}
        \cup {Composite(<<Field(None, i), Field(None, j)>>) : i, j \in type_ids}
        \cup {VariantDef(<<Variant(StrX, 0, <<Field(None, i)>>),
                           Variant(StrY, 1, <<Field(None, j)>>)>>) : i, j \in type_ids}
        \cup {VariantDef(<<Variant(StrX, 0, <<Field(Some(StrA), i), Field(Some(StrB), j)>>)>>) :
                 i, j \in type_ids}
        \cup {TupleDef(<<i, j>>) : i, j \in type_ids}
        \cup {SequenceDef(i) : i \in type_ids}
        \cup {ArrayDef(n, i) : n \in {1, 2}, i \in type_ids}
        \cup {CompactDef(i) : i \in type_ids}
        \cup {BitSequenceDef(i, j) : i, j \in type_ids}

\* the registries of the type ids type_ids
RegistriesOver(type_ids) ==
    {[k \in type_ids |-> IF k = 0 THEN first ELSE rest[k]] :
         first \in RichDefsOver(type_ids), rest \in [type_ids \ {0} -> LeanDefsOver(type_ids)]}

LeanDefs == LeanDefsOver(TypeIds)
RichDefs == RichDefsOver(TypeIds)

\* the registries get_type_hash is run on
TypeRegistries == RegistriesOver(TypeIds)

\* a snapshot with nothing but types
TypesOnly(types) ==
    Metadata(types, <<>>, ExtrinsicMetadata(4, 0, 0, 0, 0, <<>>), 0, <<>>, OuterEnums(0, 0, 0))

InitType ==
    /\ \E types \in TypeRegistries : metadata = TypesOnly(types)
    /\ ids = ExtrinsicPartTypeIds(metadata)
    /\ input = <<>>
    /\ result = None
    /\ extrinsics = <<>>
    /\ iters = <<>>
    /\ cache = EmptyCache
    /\ ret = None
    /\ hasher = NoHasher

\* get_type_hash(&metadata.types, id, &mut cache); ret keeps the id, the
\* cache the call was given and the digest returned
GetTypeHash(id) ==
    /\ \E r \in {get_type_hash(metadata.types, id, cache)} :
           /\ cache' = r.cache
           /\ ret' = Some([id |-> id, before |-> cache, hash |-> r.hash])
    /\ UNCHANGED <<metadata, ids, input, result, extrinsics, iters, hasher>>

\* cache = HashMap::new()
NewCache ==
    /\ cache # EmptyCache
    /\ cache' = EmptyCache
    /\ ret' = None
    /\ UNCHANGED <<metadata, ids, input, result, extrinsics, iters, hasher>>

NextType == NewCache \/ \E id \in DOMAIN metadata.types : GetTypeHash(id)

SpecType == InitType /\ [][NextType]_vars

\* the same calls on the registries of fewer types
FewTypes == 2

InitFewTypes ==
    /\ \E types \in RegistriesOver(0..(FewTypes - 1)) : metadata = TypesOnly(types)
    /\ ids = ExtrinsicPartTypeIds(metadata)
    /\ input = <<>>
    /\ result = None
    /\ extrinsics = <<>>
    /\ iters = <<>>
    /\ cache = EmptyCache
    /\ ret = None
    /\ hasher = NoHasher

SpecFewTypes == InitFewTypes /\ [][NextType]_vars

-----------------------------------------------------------------------------
(* Hashing the parts of a snapshot *)

\* a signed extension of ExtrinsicMetadata
SignedExtension(identifier, extra_ty, additional_ty) ==
    [identifier |-> identifier, extra_ty |-> extra_ty, additional_ty |-> additional_ty]

\* the loop over extrinsic.signed_extensions as an XOR of the hashes of the
\* extensions
RECURSIVE FoldSignedExtensions_Xor(_, _, _, _)
FoldSignedExtensions_Xor(registry, exts, acc, hcache) ==
    IF exts = <<>> THEN [hash |-> acc, cache |-> hcache]
    ELSE LET rest(t) ==
                 FoldSignedExtensions_Xor(registry, Tail(exts),
                     xor(acc, concat_and_hash3(hash(Bytes(Head(exts).identifier)),
                                               t.hashes[1], t.hashes[2])),
                     t.cache)
         IN  rest(TypeHashes(registry, <<Head(exts).extra_ty, Head(exts).additional_ty>>,
                             <<>>, hcache))

\* the loop of get_extrinsic_hash over extrinsic.signed_extensions
RECURSIVE FoldSignedExtensions(_, _, _, _)
FoldSignedExtensions(registry, exts, acc, hcache) ==
    IF exts = <<>> THEN [hash |-> acc, cache |-> hcache]
    ELSE LET rest(t) ==
                 FoldSignedExtensions(registry, Tail(exts),
                     concat_and_hash4(acc, hash(Bytes(Head(exts).identifier)),
                                      t.hashes[1], t.hashes[2]),
                     t.cache)
         IN  rest(TypeHashes(registry, <<Head(exts).extra_ty, Head(exts).additional_ty>>,
                             <<>>, hcache))

\* get_extrinsic_hash
get_extrinsic_hash(registry, extrinsic) ==
    LET fold(t) ==
            FoldSignedExtensions(registry, extrinsic.signed_extensions,
                concat_and_hash4(t.hashes[1], t.hashes[2], t.hashes[3],
                                 Filled(extrinsic.version)),
                t.cache).hash
    IN  fold(TypeHashes(registry,
                        <<extrinsic.address_ty, extrinsic.signature_ty, extrinsic.extra_ty>>,
                        <<>>, EmptyCache))

\* get_outer_enums_hash::get_enum_hash
get_enum_hash(registry, id, only_these_variants) ==
    IF registry[id].kind = "Variant"
    THEN get_type_def_variant_hash(registry, registry[id], only_these_variants, EmptyCache).hash
    ELSE get_type_hash(registry, id, EmptyCache).hash

\* get_outer_enums_hash with the allow-list dropped
get_outer_enums_hash_Unfiltered(registry, enums, only_these_variants) ==
    concat_and_hash3(get_enum_hash(registry, enums.call_enum_ty, None),
                     get_enum_hash(registry, enums.event_enum_ty, None),
                     get_enum_hash(registry, enums.error_enum_ty, None))

\* get_outer_enums_hash
get_outer_enums_hash(registry, enums, only_these_variants) ==
    concat_and_hash3(get_enum_hash(registry, enums.call_enum_ty, only_these_variants),
                     get_enum_hash(registry, enums.event_enum_ty, only_these_variants),
                     get_enum_hash(registry, enums.error_enum_ty, only_these_variants))

\* StorageEntryType and StorageEntryMetadata; modifier and the hashers are
\* the discriminants `as u8` takes
Plain(ty) == [kind |-> "Plain", ty |-> ty, hashers |-> <<>>, key_ty |-> 0, value_ty |-> 0]
Map(hashers, key_ty, value_ty) ==
    [kind |-> "Map", ty |-> 0, hashers |-> hashers, key_ty |-> key_ty, value_ty |-> value_ty]
StorageEntryMetadata(name, modifier, entry_type, default) ==
    [name |-> name, modifier |-> modifier, entry_type |-> entry_type, default |-> default]
StorageMetadata(prefix, entries) == [prefix |-> prefix, entries |-> entries]

\* the loop of get_storage_entry_hash over the hashers of a map
RECURSIVE FoldHashers(_, _)
FoldHashers(hashers, acc) ==
    IF hashers = <<>> THEN acc
    ELSE FoldHashers(Tail(hashers), concat_and_hash2(acc, Filled(Head(hashers))))

\* get_storage_entry_hash
get_storage_entry_hash(registry, entry, hcache) ==
    LET start == concat_and_hash3(hash(Bytes(entry.name)), Filled(entry.modifier),
                                  hash(Bytes(entry.default)))
    IN  IF entry.entry_type.kind = "Plain"
        THEN concat_and_hash2_of(start, get_type_hash(registry, entry.entry_type.ty, hcache))
        ELSE LET finish(t) ==
                     [hash  |-> concat_and_hash3(FoldHashers(entry.entry_type.hashers, start),
                                                 t.hashes[1], t.hashes[2]),
                      cache |-> t.cache]
             IN  finish(TypeHashes(registry,
                                   <<entry.entry_type.key_ty, entry.entry_type.value_ty>>,
                                   <<>>, hcache))

\* runtime APIs: a trait has a name and methods, a method a name, inputs
\* (name, ty) and an output type
RuntimeApiInput(name, ty) == [name |-> name, ty |-> ty]
RuntimeApiMethodMetadata(name, inputs, output_ty) ==
    [name |-> name, inputs |-> inputs, output_ty |-> output_ty]
RuntimeApiMetadataInner(name, methods) == [name |-> name, methods |-> methods]

\* the loop of get_runtime_method_hash over method_metadata.inputs
RECURSIVE FoldInputs(_, _, _, _)
FoldInputs(registry, inputs, acc, hcache) ==
    IF inputs = <<>> THEN [hash |-> acc, cache |-> hcache]
    ELSE LET rest(t) ==
                 FoldInputs(registry, Tail(inputs),
                            concat_and_hash3(acc, hash(Bytes(Head(inputs).name)), t.hash),
                            t.cache)
         IN  rest(get_type_hash(registry, Head(inputs).ty, hcache))

\* get_runtime_method_hash
get_runtime_method_hash(registry, trait_name, method_metadata, hcache) ==
    LET output(b) ==
            concat_and_hash2_of(b.hash,
                                get_type_hash(registry, method_metadata.output_ty, b.cache))
    IN  output(FoldInputs(registry, method_metadata.inputs,
                          concat_and_hash2(hash(Bytes(trait_name)),
                                           hash(Bytes(method_metadata.name))),
                          hcache))

\* the fold of get_runtime_trait_hash over trait_metadata.methods()
RECURSIVE XorMethods(_, _, _, _, _)
XorMethods(registry, trait_name, methods, acc, hcache) ==
    IF methods = <<>> THEN [hash |-> acc, cache |-> hcache]
    ELSE LET rest(m) == XorMethods(registry, trait_name, Tail(methods),
                                   xor(acc, m.hash), m.cache)
         IN  rest(get_runtime_method_hash(registry, trait_name, Head(methods), hcache))

\* get_runtime_trait_hash; trait_metadata is the handle [inner, types]
get_runtime_trait_hash(trait_metadata) ==
    concat_and_hash2(hash(Bytes(trait_metadata.inner.name)),
                     XorMethods(trait_metadata.types, trait_metadata.inner.name,
                                trait_metadata.inner.methods, Filled(0), EmptyCache).hash)

\* a constant of a pallet
ConstantMetadata(name, ty, value) == [name |-> name, ty |-> ty, value |-> value]

\* the fold of get_pallet_hash over pallet.constants()
RECURSIVE XorConstants(_, _, _, _)
XorConstants(registry, constants, acc, hcache) ==
    IF constants = <<>> THEN [hash |-> acc, cache |-> hcache]
    ELSE LET rest(t) ==
                 XorConstants(registry, Tail(constants),
                              xor(acc, concat_and_hash2(hash(Bytes(Head(constants).name)),
                                                        t.hash)),
                              t.cache)
         IN  rest(get_type_hash(registry, Head(constants).ty, hcache))

\* the fold of get_pallet_hash over storage.entries()
RECURSIVE XorStorageEntries(_, _, _, _)
XorStorageEntries(registry, entries, acc, hcache) ==
    IF entries = <<>> THEN [hash |-> acc, cache |-> hcache]
    ELSE LET rest(e) == XorStorageEntries(registry, Tail(entries), xor(acc, e.hash), e.cache)
         IN  rest(get_storage_entry_hash(registry, Head(entries), hcache))

\* `match ty_id { Some(id) => get_type_hash(registry, id, &mut cache),
\*                None => [0u8; HASH_LEN] }` of get_pallet_hash
OptionalTypeHash(registry, ty_id, hcache) ==
    IF IsSome(ty_id) THEN get_type_hash(registry, Unwrap(ty_id), hcache)
    ELSE [hash |-> Filled(0), cache |-> hcache]

\* get_pallet_hash; pallet is the handle [inner, types]
get_pallet_hash(pallet) ==
    LET registry == pallet.types
        storage_bytes(hcache) ==
            IF IsSome(pallet.inner.storage)
            THEN concat_and_hash2(
                     hash(Bytes(Unwrap(pallet.inner.storage).prefix)),
                     XorStorageEntries(registry, Unwrap(pallet.inner.storage).entries,
                                       Filled(0), hcache).hash)
            ELSE Filled(0)
        all(call, event, error, constant) ==
            concat_and_hash5(call.hash, event.hash, error.hash, constant.hash,
                             storage_bytes(constant.cache))
        constants(call, event, error) ==
            all(call, event, error,
                XorConstants(registry, pallet.inner.constants, Filled(0), error.cache))
        errors(call, event) ==
            constants(call, event, OptionalTypeHash(registry, pallet.inner.error_ty, event.cache))
        events(call) ==
            errors(call, OptionalTypeHash(registry, pallet.inner.event_ty, call.cache))
    IN  events(OptionalTypeHash(registry, pallet.inner.call_ty, EmptyCache))

\* PalletMetadata::constant_by_name: the constants of a pallet are kept by
\* name, so at most one has the name
constant_by_name(pallet, constant_name) ==
    LET at == {k \in DOMAIN pallet.inner.constants :
                   pallet.inner.constants[k].name = constant_name}
    IN  IF at = {} THEN None ELSE Some(pallet.inner.constants[CHOOSE k \in at : TRUE])

\* get_constant_hash with the stored value hashed next to the type
get_constant_hash_WithValue(pallet, constant_name) ==
    LET found(c) ==
            IF c = None THEN None
            ELSE Some(concat_and_hash2(
                          get_type_hash(pallet.types, Unwrap(c).ty, EmptyCache).hash,
                          hash(Bytes(Unwrap(c).value))))
    IN  found(constant_by_name(pallet, constant_name))

\* get_constant_hash; pallet is the handle [inner, types]
get_constant_hash(pallet, constant_name) ==
    LET found(c) ==
            IF c = None THEN None
            ELSE Some(get_type_hash(pallet.types, Unwrap(c).ty, EmptyCache).hash)
    IN  found(constant_by_name(pallet, constant_name))

-----------------------------------------------------------------------------
(* MetadataHasher *)

\* Metadata::pallets(): the pallets in the order of the snapshot, each as
\* the handle [inner, types] the hashing functions are given
pallets(md) == [k \in 1..Len(md.pallets) |-> [inner |-> md.pallets[k], types |-> md.types]]

\* Metadata::runtime_api_traits(): likewise for the runtime API traits
runtime_api_traits(md) == [k \in 1..Len(md.apis) |-> [inner |-> md.apis[k], types |-> md.types]]

\* Metadata::outer_enums()
outer_enums(md) == md.outer_enums

\* Metadata::runtime_ty()
runtime_ty(md) == md.runtime_ty

\* MetadataHasher::only_these_pallets
only_these_pallets(self, specific_pallets) ==
    [self EXCEPT !.specific_pallets = Some(specific_pallets)]

\* MetadataHasher::only_these_runtime_apis
only_these_runtime_apis(self, specific_runtime_apis) ==
    [self EXCEPT !.specific_runtime_apis = Some(specific_runtime_apis)]

\* the pallet fold with the digests chained instead of XORed
RECURSIVE XorPallets_Chained(_, _, _, _)
XorPallets_Chained(ps, k, specific_pallets, acc) ==
    IF k > Len(ps) THEN acc
    ELSE IF should_hash(specific_pallets, ps[k].inner.name)
    THEN XorPallets_Chained(ps, k + 1, specific_pallets,
                            concat_and_hash2(acc, get_pallet_hash(ps[k])))
    ELSE XorPallets_Chained(ps, k + 1, specific_pallets, acc)

\* the fold of MetadataHasher::hash over metadata.pallets(), from the k-th
\* pallet on
RECURSIVE XorPallets(_, _, _, _)
XorPallets(ps, k, specific_pallets, acc) ==
    IF k > Len(ps) THEN acc
    ELSE IF should_hash(specific_pallets, ps[k].inner.name)
    THEN XorPallets(ps, k + 1, specific_pallets, xor(acc, get_pallet_hash(ps[k])))
    ELSE XorPallets(ps, k + 1, specific_pallets, acc)

\* the fold of MetadataHasher::hash over metadata.runtime_api_traits(), from
\* the k-th trait on
RECURSIVE FoldApis(_, _, _, _)
FoldApis(apis, k, specific_runtime_apis, acc) ==
    IF k > Len(apis) THEN acc
    ELSE IF should_hash(specific_runtime_apis, apis[k].inner.name)
    THEN FoldApis(apis, k + 1, specific_runtime_apis,
                  xor(acc, xor(acc, get_runtime_trait_hash(apis[k]))))
    ELSE FoldApis(apis, k + 1, specific_runtime_apis, acc)

\* MetadataHasher::hash; self is [specific_pallets, specific_runtime_apis]
\* and md the snapshot self.metadata
MetadataHasher_hash(self, md) ==
    concat_and_hash5(
        XorPallets(pallets(md), 1, self.specific_pallets, Filled(0)),
        FoldApis(runtime_api_traits(md), 1, self.specific_runtime_apis, Filled(0)),
        get_extrinsic_hash(md.types, md.extrinsic),
        get_type_hash(md.types, runtime_ty(md), EmptyCache).hash,
        get_outer_enums_hash(md.types, outer_enums(md), self.specific_pallets))

-----------------------------------------------------------------------------
(* MetadataHasher as a state machine: a hasher is made for a snapshot,     *)
(* narrowed with only_these_pallets / only_these_runtime_apis, and asked   *)
(* for the digest                                                          *)

\* the types of the snapshots: (), u8, tests::A and tests::B, (A, B),
\* tests::Aba and tests::Abb, Vec<u8>
MetaDefs ==
    << TupleDef(<<>>),
       Primitive("u8"),
       Composite(<<Field(Some(StrB), 3)>>),
       Composite(<<Field(Some(StrA), 2)>>),
       TupleDef(<<2, 3>>),
       Composite(<<Field(Some(StrA), 4), Field(Some(StrX), 2)>>),
       Composite(<<Field(Some(StrA), 4), Field(Some(StrX), 3)>>),
       SequenceDef(1) >>

\* the pallets snapshots are built from; the index is given by the position
PalletChoices ==
    { PalletMetadata(StrFirst, 0, Some(2), None, None, <<>>, None),
      PalletMetadata(StrSecond, 0, Some(3), None, None, <<>>, None),
      PalletMetadata(StrTest, 0, Some(5), Some(1), Some(0),
                     <<ConstantMetadata(StrA, 1, <<7>>), ConstantMetadata(StrB, 7, <<>>)>>,
                     Some(StorageMetadata(StrX,
                              <<StorageEntryMetadata(StrA, 0, Plain(1), <<0>>),
                                StorageEntryMetadata(StrB, 1, Map(<<2, 5>>, 1, 7), <<>>)>>))),
      PalletMetadata(StrX, 0, None, None, None, <<>>, None) }

\* the runtime API traits snapshots are built from
ApiChoices ==
    { RuntimeApiMetadataInner(StrA,
          <<RuntimeApiMethodMetadata(StrX, <<RuntimeApiInput(StrA, 1)>>, 2)>>),
      RuntimeApiMetadataInner(StrB,
          <<RuntimeApiMethodMetadata(StrY, <<>>, 3),
            RuntimeApiMethodMetadata(StrX, <<RuntimeApiInput(StrB, 2), RuntimeApiInput(StrA, 7)>>, 1)>>) }

MaxPallets == 3
MaxApis == 2

\* the sequences over S of length at most n without a repeated element
DistinctSeqs(S, n) ==
    {s \in SeqsUpTo(S, n) : \A i, j \in DOMAIN s : i # j => s[i] # s[j]}

\* the pallets numbered by their position
Reindexed(ps) == [k \in DOMAIN ps |-> [ps[k] EXCEPT !.index = k - 1]]

\* the outer call enum of the pallets ps: one variant per pallet with calls
RECURSIVE CallVariants(_, _)
CallVariants(ps, k) ==
    IF k > Len(ps) THEN <<>>
    ELSE IF IsSome(ps[k].call_ty)
    THEN <<Variant(ps[k].name, ps[k].index, <<Field(None, Unwrap(ps[k].call_ty))>>)>>
             \o CallVariants(ps, k + 1)
    ELSE CallVariants(ps, k + 1)

\* the snapshot of the pallets ps and the runtime APIs apis: the outer call
\* enum is the last type, the outer event and error enums and the runtime
\* type are (), as in tests::pallets_to_metadata
Snapshot(ps, apis) ==
    Metadata(Registry(Append(MetaDefs, VariantDef(CallVariants(Reindexed(ps), 1)))),
             Reindexed(ps),
             ExtrinsicMetadata(4, 1, Len(MetaDefs), 1, 0,
                               <<SignedExtension(StrX, 1, 0), SignedExtension(StrY, 2, 1)>>),
             0, apis, OuterEnums(Len(MetaDefs), 0, 0))

\* the outer event enum of the pallets ps: one variant per pallet with events
RECURSIVE EventVariants(_, _)
EventVariants(ps, k) ==
    IF k > Len(ps) THEN <<>>
    ELSE IF IsSome(ps[k].event_ty)
    THEN <<Variant(ps[k].name, ps[k].index, <<Field(None, Unwrap(ps[k].event_ty))>>)>>
             \o EventVariants(ps, k + 1)
    ELSE EventVariants(ps, k + 1)

\* the outer error enum of the pallets ps: one variant per pallet with errors
RECURSIVE ErrorVariants(_, _)
ErrorVariants(ps, k) ==
    IF k > Len(ps) THEN <<>>
    ELSE IF IsSome(ps[k].error_ty)
    THEN <<Variant(ps[k].name, ps[k].index, <<Field(None, Unwrap(ps[k].error_ty))>>)>>
             \o ErrorVariants(ps, k + 1)
    ELSE ErrorVariants(ps, k + 1)

\* the snapshot of the pallets ps and the runtime APIs apis with the three
\* outer enums of a runtime: the call, event and error enums are the last
\* three types, each with one variant per pallet that has the part
SnapshotWithOuterEnums(ps, apis) ==
    Metadata(Registry(MetaDefs \o <<VariantDef(CallVariants(Reindexed(ps), 1)),
                                    VariantDef(EventVariants(Reindexed(ps), 1)),
                                    VariantDef(ErrorVariants(Reindexed(ps), 1))>>),
             Reindexed(ps),
             ExtrinsicMetadata(4, 1, Len(MetaDefs), 1, 0,
                               <<SignedExtension(StrX, 1, 0), SignedExtension(StrY, 2, 1)>>),
             0, apis, OuterEnums(Len(MetaDefs), Len(MetaDefs) + 1, Len(MetaDefs) + 2))

\* the allow-lists given to only_these_pallets and only_these_runtime_apis
PalletAllowLists == {<<StrFirst>>, <<StrSecond, StrFirst>>, <<StrY>>, <<>>}
ApiAllowLists == {<<StrA>>, <<StrB, StrA>>, <<StrY>>}

InitMeta ==
    /\ \E ps \in DistinctSeqs(PalletChoices, MaxPallets), apis \in DistinctSeqs(ApiChoices, MaxApis) :
           metadata \in {Snapshot(ps, apis), SnapshotWithOuterEnums(ps, apis)}
    /\ ids = ExtrinsicPartTypeIds(metadata)
    /\ input = <<>>
    /\ result = None
    /\ extrinsics = <<>>
    /\ iters = <<>>
    /\ cache = EmptyCache
    /\ ret = None
    /\ hasher = NoHasher

\* hasher.only_these_pallets(names)
OnlyThesePallets(names) ==
    /\ ret = None
    /\ hasher.specific_pallets = None
    /\ hasher' = only_these_pallets(hasher, names)
    /\ UNCHANGED <<metadata, ids, input, result, extrinsics, iters, cache, ret>>

\* hasher.only_these_runtime_apis(names)
OnlyTheseRuntimeApis(names) ==
    /\ ret = None
    /\ hasher.specific_runtime_apis = None
    /\ hasher' = only_these_runtime_apis(hasher, names)
    /\ UNCHANGED <<metadata, ids, input, result, extrinsics, iters, cache, ret>>

\* hasher.hash()
Hash ==
    /\ ret = None
    /\ ret' = Some(MetadataHasher_hash(hasher, metadata))
    /\ UNCHANGED <<metadata, ids, input, result, extrinsics, iters, cache, hasher>>

NextMeta ==
    \/ \E names \in PalletAllowLists : OnlyThesePallets(names)
    \/ \E names \in ApiAllowLists : OnlyTheseRuntimeApis(names)
    \/ Hash

SpecMeta == InitMeta /\ [][NextMeta]_vars

-----------------------------------------------------------------------------
(* get_constant_hash as a state machine: the pallets of a snapshot are     *)
(* asked for the hash of a constant by name                                *)

\* the names constants are asked for: those of the constants of the pallet
\* Test, and one no pallet has
ConstantNames == {StrA, StrB, StrY}

\* get_constant_hash(&pallet, constant_name) for the k-th pallet of the
\* snapshot; result keeps the pallet, the name and the Option returned
GetConstantHash(k, constant_name) ==
    /\ result' = Some([pallet |-> k, name |-> constant_name,
                       hash |-> get_constant_hash(pallets(metadata)[k], constant_name)])
    /\ UNCHANGED <<metadata, ids, input, extrinsics, iters, cache, ret, hasher>>

NextConst ==
    \E k \in DOMAIN metadata.pallets, constant_name \in ConstantNames :
        GetConstantHash(k, constant_name)

SpecConst == InitMeta /\ [][NextConst]_vars

-----------------------------------------------------------------------------
(* Claims about get_type_hash *)

\* the permutations of the set S
Perms(S) == {p \in [S -> S] : \A a, b \in S : p[a] = p[b] => a = b}

\* the sequence s in the order p
PermuteSeq(s, p) == [k \in DOMAIN s |-> s[p[k]]]

\* the last call was get_type_hash(types, id, cache) with an empty cache
FreshCall == IsSome(ret) /\ Unwrap(ret).before = EmptyCache

\* the digest get_type_hash returns for id from an empty cache
TypeHashOf(types, id) == get_type_hash(types, id, EmptyCache).hash

\* type definition d with every type id n it refers to replaced by p[n]
RenumberDef(d, p) ==
    [d EXCEPT !.fields   = [k \in DOMAIN d.fields |-> [d.fields[k] EXCEPT !.ty = p[@]]],
              !.variants = [k \in DOMAIN d.variants |->
                               [d.variants[k] EXCEPT !.fields =
                                   [j \in DOMAIN d.variants[k].fields |->
                                       [d.variants[k].fields[j] EXCEPT !.ty = p[@]]]]],
              !.params   = [k \in DOMAIN d.params |-> p[d.params[k]]]]

\* the registry with type id n renumbered to p[n] throughout
Renumber(types, p) ==
    [n \in DOMAIN types |->
        RenumberDef(types[CHOOSE k \in DOMAIN types : p[k] = n], p)]

\* the registries that differ from types in the order of the fields of one
\* composite, of the fields of one variant, or of the variants of one enum
Reorderings(types) ==
    UNION { {[types EXCEPT ![t].fields = PermuteSeq(@, p)] :
                 p \in Perms(DOMAIN types[t].fields)}
            \cup {[types EXCEPT ![t].variants = PermuteSeq(@, p)] :
                      p \in Perms(DOMAIN types[t].variants)}
            \cup UNION { {[types EXCEPT ![t].variants[v].fields = PermuteSeq(@, p)] :
                              p \in Perms(DOMAIN types[t].variants[v].fields)} :
                         v \in DOMAIN types[t].variants }
            : t \in DOMAIN types }

\* the names a field or variant is renamed to
NameChoices == {StrA, StrB, StrX, StrY}

\* the registries that differ from types in the name of one named field of
\* type t, of one named field of a variant of t, or of one variant of t
Renamings(types, t) ==
    UNION { {[types EXCEPT ![t].fields[k].name = Some(n)] :
                 n \in NameChoices \ {Unwrap(types[t].fields[k].name)}} :
            k \in {k \in DOMAIN types[t].fields : IsSome(types[t].fields[k].name)} }
    \cup UNION { {[types EXCEPT ![t].variants[v].name = n] :
                      n \in NameChoices \ {types[t].variants[v].name}} :
                 v \in DOMAIN types[t].variants }
    \cup UNION { UNION { {[types EXCEPT ![t].variants[v].fields[k].name = Some(n)] :
                              n \in NameChoices \ {Unwrap(types[t].variants[v].fields[k].name)}} :
                         k \in {k \in DOMAIN types[t].variants[v].fields :
                                   IsSome(types[t].variants[v].fields[k].name)} } :
                 v \in DOMAIN types[t].variants }

\* type id a is referred to by the definition of type id b
RefersTo(types, b, a) ==
    \/ \E k \in DOMAIN types[b].fields : types[b].fields[k].ty = a
    \/ \E v \in DOMAIN types[b].variants :
           \E k \in DOMAIN types[b].variants[v].fields : types[b].variants[v].fields[k].ty = a
    \/ \E k \in DOMAIN types[b].params : types[b].params[k] = a

\* C7: permuting the fields of a composite, the fields of an enum variant
\* or the variants of an enum of the registry leaves the digest that
\* get_type_hash returns from an empty cache unchanged, for every type of
\* the registry, cyclic type graphs included.
C7_ReorderingKeepsTypeHash ==
    FreshCall =>
        \A reordered \in Reorderings(metadata.types) :
            TypeHashOf(reordered, Unwrap(ret).id) = Unwrap(ret).hash

\* a struct with the fields x: A and y: B over tests::A and tests::B was
\* hashed from an empty cache, and the digest of the struct with the fields
\* y: B and x: A is another one
C7_Witness ==
    /\ FreshCall
    /\ Unwrap(ret).id = 0
    /\ metadata.types = Registry(<<Composite(<<Field(Some(StrX), 1), Field(Some(StrY), 2)>>),
                                   Composite(<<Field(Some(StrB), 2)>>),
                                   Composite(<<Field(Some(StrA), 1)>>)>>)
    /\ TypeHashOf(Registry(<<Composite(<<Field(Some(StrY), 2), Field(Some(StrX), 1)>>),
                             Composite(<<Field(Some(StrB), 2)>>),
                             Composite(<<Field(Some(StrA), 1)>>)>>), 0)
           # Unwrap(ret).hash

\* C8: renaming one named field of a composite or of an enum variant, or
\* one variant of an enum, changes the digest get_type_hash returns for
\* that type from an empty cache.
C8_RenamingChangesTypeHash ==
    FreshCall =>
        \A renamed \in Renamings(metadata.types, Unwrap(ret).id) :
            TypeHashOf(renamed, Unwrap(ret).id) # Unwrap(ret).hash

\* a type with two members was hashed from an empty cache and has a
\* renaming, in a registry where it refers to a type that refers back to it
C8_Witness ==
    /\ FreshCall
    /\ Renamings(metadata.types, Unwrap(ret).id) # {}
    /\ metadata.types[Unwrap(ret).id].kind = "Variant"
    /\ Len(metadata.types[Unwrap(ret).id].variants) = 2
    /\ \E a \in DOMAIN metadata.types :
           /\ a # Unwrap(ret).id
           /\ RefersTo(metadata.types, Unwrap(ret).id, a)
           /\ RefersTo(metadata.types, a, Unwrap(ret).id)

\* Option<u32> with the type id renumbered
RenumberOption(o, p) == IF IsSome(o) THEN Some(p[Unwrap(o)]) ELSE None

\* a pallet with every type id n it refers to replaced by p[n]; of a storage
\* entry type only the members of its kind are read
RenumberPallet(pl, p) ==
    [pl EXCEPT
        !.call_ty   = RenumberOption(@, p),
        !.event_ty  = RenumberOption(@, p),
        !.error_ty  = RenumberOption(@, p),
        !.constants = [k \in DOMAIN pl.constants |-> [pl.constants[k] EXCEPT !.ty = p[@]]],
        !.storage   =
            IF IsSome(pl.storage)
            THEN Some([Unwrap(pl.storage) EXCEPT !.entries =
                     [k \in DOMAIN Unwrap(pl.storage).entries |->
                         [Unwrap(pl.storage).entries[k] EXCEPT
                             !.entry_type.ty       = IF @ \in DOMAIN p THEN p[@] ELSE @,
                             !.entry_type.key_ty   = IF @ \in DOMAIN p THEN p[@] ELSE @,
                             !.entry_type.value_ty = IF @ \in DOMAIN p THEN p[@] ELSE @]]])
            ELSE None]

\* a runtime API trait with every type id n it refers to replaced by p[n]
RenumberApi(api, p) ==
    [api EXCEPT !.methods =
        [k \in DOMAIN api.methods |->
            [api.methods[k] EXCEPT
                !.inputs    = [j \in DOMAIN api.methods[k].inputs |->
                                  [api.methods[k].inputs[j] EXCEPT !.ty = p[@]]],
                !.output_ty = p[@]]]]

\* the snapshot with type id n renumbered to p[n] throughout
RenumberSnapshot(md, p) ==
    [md EXCEPT
        !.types       = Renumber(@, p),
        !.pallets     = [k \in DOMAIN md.pallets |-> RenumberPallet(md.pallets[k], p)],
        !.extrinsic   =
            [md.extrinsic EXCEPT
                !.address_ty   = p[@],
                !.call_ty      = p[@],
                !.signature_ty = p[@],
                !.extra_ty     = p[@],
                !.signed_extensions =
                    [k \in DOMAIN md.extrinsic.signed_extensions |->
                        [md.extrinsic.signed_extensions[k] EXCEPT
                            !.extra_ty = p[@], !.additional_ty = p[@]]]],
        !.runtime_ty  = p[@],
        !.apis        = [k \in DOMAIN md.apis |-> RenumberApi(md.apis[k], p)],
        !.outer_enums = [call_enum_ty  |-> p[md.outer_enums.call_enum_ty],
                         event_enum_ty |-> p[md.outer_enums.event_enum_ty],
                         error_enum_ty |-> p[md.outer_enums.error_enum_ty]]]

\* the snapshot md with one pallet, whose calls are of type id, as the
\* snapshot of tests::recursive_type
WithCallsOf(md, id) ==
    [md EXCEPT !.pallets = <<PalletMetadata(StrTest, 0, Some(id), None, None, <<>>, None)>>]

\* C9: a consistent renumbering of the type ids of a registry leaves the
\* digest get_type_hash returns for the root from an empty cache unchanged,
\* and so the digest of a snapshot whose pallet has the root as its call
\* type; mutually recursive types registered in either order are a case.
C9_RenumberingKeepsHash ==
    FreshCall =>
        LET snapshot == WithCallsOf(metadata, Unwrap(ret).id)
            digest   == MetadataHasher_hash(NoHasher, snapshot)
        IN  \A p \in Perms(DOMAIN metadata.types) :
                /\ TypeHashOf(Renumber(metadata.types, p), p[Unwrap(ret).id]) = Unwrap(ret).hash
                /\ MetadataHasher_hash(NoHasher, RenumberSnapshot(snapshot, p)) = digest

\* tests::A was hashed from an empty cache in a registry where tests::B is
\* registered at the lower type id
C9_Witness ==
    /\ FreshCall
    /\ \E b \in DOMAIN metadata.types :
           /\ b < Unwrap(ret).id
           /\ metadata.types[Unwrap(ret).id] = Composite(<<Field(Some(StrB), b)>>)
           /\ metadata.types[b] = Composite(<<Field(Some(StrA), Unwrap(ret).id)>>)

\* no element occurs twice in the sequence s
NoRepeat(s) == \A i, j \in DOMAIN s : i # j => s[i] # s[j]

\* C10: every get_type_hash call has returned (no expansion is left open),
\* and within one cache the definition of each type id is expanded at most
\* once: the number of expansions and the depth of the recursion are at
\* most the number of type ids of the registry.
C10_ExpandedAtMostOnce ==
    /\ cache.depth = 0
    /\ NoRepeat(cache.expanded)
    /\ Len(cache.expanded) <= Cardinality(DOMAIN metadata.types)
    /\ cache.deepest <= Cardinality(DOMAIN metadata.types)

\* a call from an empty cache went through a cycle over all the type ids
\* of the registry: each was expanded, one inside the other, and the last
\* refers back to the first
C10_Witness ==
    /\ FreshCall
    /\ Len(cache.expanded) = Cardinality(DOMAIN metadata.types)
    /\ cache.deepest = Len(cache.expanded)
    /\ RefersTo(metadata.types, cache.expanded[Len(cache.expanded)], Unwrap(ret).id)

-----------------------------------------------------------------------------
(* Claims about MetadataHasher *)

\* the snapshot with its pallets in the order p, numbered by their new
\* position
PermutePallets(md, p) == [md EXCEPT !.pallets = Reindexed(PermuteSeq(@, p))]

\* C6: MetadataHasher::hash returns the same digest for a snapshot and for
\* the snapshot with the same pallets in another order, the pallet indices
\* reassigned to the new positions.
C6_PalletOrderKeepsDigest ==
    IsSome(ret) =>
        \A p \in Perms(DOMAIN metadata.pallets) :
            MetadataHasher_hash(hasher, PermutePallets(metadata, p)) = Unwrap(ret)

\* every pallet of a snapshot of three was hashed, the pallets whose calls
\* are tests::B and tests::A first
C6_Witness ==
    /\ IsSome(ret)
    /\ hasher = NoHasher
    /\ Len(metadata.pallets) = 3
    /\ metadata.pallets[1].name = StrSecond
    /\ metadata.pallets[2].name = StrFirst


\* the snapshot with its runtime API traits in the order p
PermuteApis(md, p) == [md EXCEPT !.apis = PermuteSeq(@, p)]

\* the snapshot without its k-th runtime API trait
WithoutApi(md, k) ==
    [md EXCEPT !.apis = SubSeq(@, 1, k - 1) \o SubSeq(@, k + 1, Len(@))]

\* C11: the runtime API slot of MetadataHasher::hash is the XOR of the
\* digests of the selected traits: the digest returned is the same for
\* every order of the traits in the snapshot, and every selected trait
\* contributes, so the snapshot without one of them has another digest.
C11_ApiOrderKeepsDigest ==
    IsSome(ret) =>
        /\ \A p \in Perms(DOMAIN metadata.apis) :
               MetadataHasher_hash(hasher, PermuteApis(metadata, p)) = Unwrap(ret)
        /\ \A k \in DOMAIN metadata.apis :
               should_hash(hasher.specific_runtime_apis, metadata.apis[k].name) =>
                   MetadataHasher_hash(hasher, WithoutApi(metadata, k)) # Unwrap(ret)

\* a snapshot with two runtime API traits was hashed with no allow-list;
\* the digest is another one with the traits swapped, and the same one
\* without the first trait
C11_Witness ==
    /\ IsSome(ret)
    /\ hasher = NoHasher
    /\ Len(metadata.apis) = 2
    /\ MetadataHasher_hash(hasher, PermuteApis(metadata, <<2, 1>>)) # Unwrap(ret)
    /\ MetadataHasher_hash(hasher, WithoutApi(metadata, 1)) = Unwrap(ret)

\* the snapshot that holds only the pallets of md named in names: the
\* pallet list and the variants of the outer enums are cut down to them,
\* everything else is as in md
WithPalletsNamed(md, names) ==
    LET named(x) == \E i \in DOMAIN names : names[i] = x.name
        enum_ids == {md.outer_enums.call_enum_ty, md.outer_enums.event_enum_ty,
                     md.outer_enums.error_enum_ty}
    IN  [md EXCEPT !.pallets = SelectSeq(@, named),
                   !.types = [id \in DOMAIN @ |->
                                 IF id \in enum_ids /\ @[id].kind = "Variant"
                                 THEN [@[id] EXCEPT !.variants = SelectSeq(@, named)]
                                 ELSE @[id]]]

\* names that no pallet of a snapshot has
AbsentNames == {StrY, StrA}

\* C12: the digest of a snapshot restricted with only_these_pallets(names)
\* is the digest of the snapshot that holds only the pallets named, hashed
\* with the same allow-list or with none; a name in the allow-list that no
\* pallet has changes nothing, and hash returns a digest in every case.
C12_FilteredIsSmallerSnapshot ==
    IsSome(ret) /\ IsSome(hasher.specific_pallets) =>
        /\ Unwrap(ret) =
               MetadataHasher_hash(hasher,
                   WithPalletsNamed(metadata, Unwrap(hasher.specific_pallets)))
        /\ Unwrap(ret) =
               MetadataHasher_hash([hasher EXCEPT !.specific_pallets = None],
                   WithPalletsNamed(metadata, Unwrap(hasher.specific_pallets)))
        /\ \A absent \in AbsentNames :
               Unwrap(ret) =
                   MetadataHasher_hash(
                       only_these_pallets(hasher,
                           Append(Unwrap(hasher.specific_pallets), absent)),
                       metadata)

\* a snapshot with the pallets First and Second and one outer-enum variant
\* for each was hashed with only_these_pallets(["First"]); the digest is not
\* the digest of the whole snapshot
C12_Witness ==
    /\ IsSome(ret)
    /\ hasher.specific_pallets = Some(<<StrFirst>>)
    /\ Len(metadata.pallets) = 2
    /\ metadata.pallets[1].name = StrFirst
    /\ metadata.pallets[2].name = StrSecond
    /\ Len(metadata.types[metadata.outer_enums.call_enum_ty].variants) = 2
    /\ Len(WithPalletsNamed(metadata, <<StrFirst>>).pallets) = 1
    /\ Unwrap(ret) # MetadataHasher_hash([hasher EXCEPT !.specific_pallets = None], metadata)
-----------------------------------------------------------------------------
(* Claims about as_extrinsic, the names and the byte accessors *)

\* the pallet index of d names a pallet of the snapshot and the variant
\* index a variant of that pallet's call enum
Resolves(d) ==
    /\ \E k \in DOMAIN metadata.pallets : metadata.pallets[k].index = pallet_index(d)
    /\ IsSome(call_variant_by_index(metadata,
                  Unwrap(pallet_by_index_err(metadata, pallet_index(d)).pallet),
                  variant_index(d)))

\* the names d resolves to are those of E
MatchesE(d, E) ==
    /\ Resolves(d)
    /\ extrinsic_metadata(d, metadata).pallet.name = E.PALLET
    /\ extrinsic_metadata(d, metadata).variant.name = E.CALL

\* C17 as claimed: as_extrinsic::<E>() returns Some(value) only if the
\* resolved pallet and call names are E's, Ok(None) on every non-match, and
\* an error if the names match and the field bytes do not decode.
C17_Original_NoneOnEveryNonMatch ==
    IsSome(ret) /\ Unwrap(ret).op = "as_extrinsic" =>
        LET E == Unwrap(ret).E
            res == Unwrap(ret).res
            d == Outcome.details
        IN  /\ IsSome(res.value) => MatchesE(d, E)
            /\ ~MatchesE(d, E) => res.ok /\ res.value = None
            /\ MatchesE(d, E)
                   /\ ~decode_as_fields(E, field_bytes(d),
                                        extrinsic_metadata(d, metadata).variant.fields,
                                        metadata.types).ok
                   => ~res.ok

\* C17 amended: as_extrinsic::<E>() first resolves the pallet and the call
\* of the extrinsic and returns the metadata-lookup error when either index
\* is absent, whatever E is; when they resolve it returns Ok(None) if a name
\* differs from E's, Some(value) if both are E's and the field bytes decode,
\* and a decode error if both are E's and the field bytes do not decode.
C17_AsExtrinsicLooksUpFirst ==
    IsSome(ret) /\ Unwrap(ret).op = "as_extrinsic" =>
        LET E == Unwrap(ret).E
            res == Unwrap(ret).res
            d == Outcome.details
        IN  /\ IsSome(res.value) => MatchesE(d, E)
            /\ ~Resolves(d) => ~res.ok /\ res.err = "Metadata"
            /\ Resolves(d) /\ ~MatchesE(d, E) => res.ok /\ res.value = None
            /\ MatchesE(d, E) =>
                   LET decoded == decode_as_fields(E, field_bytes(d),
                                      extrinsic_metadata(d, metadata).variant.fields,
                                      metadata.types)
                   IN  /\ decoded.ok => res.ok /\ res.value = Some(decoded.value)
                       /\ ~decoded.ok => ~res.ok /\ res.err = "Decode"

\* as_extrinsic::<Test.y> on an extrinsic of the call y of the pallet Second
\* returned Ok(None): the call name is E's and the pallet name is not
C17_Witness ==
    /\ IsSome(ret)
    /\ Unwrap(ret).op = "as_extrinsic"
    /\ Unwrap(ret).E = StaticExtrinsic(StrTest, StrY, <<"bool">>)
    /\ pallet_index(Outcome.details) = 4
    /\ variant_index(Outcome.details) = 132
    /\ field_bytes(Outcome.details) = <<1>>
    /\ Unwrap(ret).res = AsExtrinsicOk(None)
    /\ as_extrinsic(Outcome.details, metadata, StaticExtrinsic(StrSecond, StrY, <<"bool">>))
           = AsExtrinsicOk(Some(<< <<1>> >>))

\* the pallets of the snapshot with the index idx
PalletsAt(idx) == {k \in DOMAIN metadata.pallets : metadata.pallets[k].index = idx}

\* the variants with the index idx of the call enum of the k-th pallet
CallVariantsAt(k, idx) ==
    IF ~IsSome(metadata.pallets[k].call_ty) THEN {}
    ELSE {v \in DOMAIN metadata.types[Unwrap(metadata.pallets[k].call_ty)].variants :
              metadata.types[Unwrap(metadata.pallets[k].call_ty)].variants[v].index = idx}

\* C18: pallet_name() and variant_name() succeed exactly when the decoded
\* pallet index names a pallet of the snapshot and the decoded variant index
\* a variant of that pallet's call enum, and then give the names of the two;
\* otherwise both fail with the same metadata-lookup error, never a decode
\* error: the pallet is looked up first, and a missing variant of a pallet
\* that is there is VariantIndexNotFound(variant index).
C18_NamesResolveOrLookupError ==
    IsSome(ret) /\ Unwrap(ret).op = "names" =>
        LET pn == Unwrap(ret).res.pallet_name
            vn == Unwrap(ret).res.variant_name
            d == Outcome.details
            found == \E k \in PalletsAt(pallet_index(d)) :
                         CallVariantsAt(k, variant_index(d)) # {}
        IN  /\ pn.ok <=> found
            /\ vn.ok <=> found
            /\ found =>
                   \E k \in PalletsAt(pallet_index(d)) :
                       \E v \in CallVariantsAt(k, variant_index(d)) :
                           /\ pn.name = metadata.pallets[k].name
                           /\ vn.name = metadata.types[Unwrap(metadata.pallets[k].call_ty)]
                                            .variants[v].name
            /\ ~found =>
                   /\ pn.err = "Metadata" /\ vn.err = "Metadata"
                   /\ pn.detail = vn.detail /\ pn.arg = vn.arg
                   /\ PalletsAt(pallet_index(d)) = {} =>
                          pn.detail = "PalletIndexNotFound" /\ pn.arg = pallet_index(d)
                   /\ PalletsAt(pallet_index(d)) # {} =>
                          pn.detail = "VariantIndexNotFound" /\ pn.arg = variant_index(d)

\* the names of an extrinsic with the pallet index 3 and the variant index
\* 132 were asked for: no pallet has the index 3, the pallet Second has a
\* call with the index 132, and the error is PalletIndexNotFound(3)
C18_Witness ==
    /\ IsSome(ret)
    /\ Unwrap(ret).op = "names"
    /\ pallet_index(Outcome.details) = 3
    /\ variant_index(Outcome.details) = 132
    /\ ~Unwrap(ret).res.pallet_name.ok
    /\ Unwrap(ret).res.variant_name.detail = "PalletIndexNotFound"
    /\ Unwrap(ret).res.variant_name.arg = 3

\* x is a contiguous range of the bytes b
IsSubRange(x, b) ==
    \E lo \in 0..Len(b) : \E hi \in lo..Len(b) : x = SubSeq(b, lo + 1, hi)

\* C19: for every decoded extrinsic, is_signed() is true exactly when bit 7
\* of the control byte is set; address_bytes(), signature_bytes() and
\* signed_extensions_bytes() are all None when it is unsigned and all Some
\* of a range of the bytes when it is signed.
C19_SignedPartsIffSignedBit ==
    IsSome(result) /\ Outcome.ok =>
        LET d == Outcome.details
            signed_bit == bytes(d)[1] >= 128
        IN  /\ is_signed(d) <=> signed_bit
            /\ ~signed_bit =>
                   /\ address_bytes(d) = None
                   /\ signature_bytes(d) = None
                   /\ signed_extensions_bytes(d) = None
            /\ signed_bit =>
                   /\ IsSome(address_bytes(d))
                   /\ IsSome(signature_bytes(d))
                   /\ IsSome(signed_extensions_bytes(d))
                   /\ IsSubRange(Unwrap(address_bytes(d)), bytes(d))
                   /\ IsSubRange(Unwrap(signature_bytes(d)), bytes(d))
                   /\ IsSubRange(Unwrap(signed_extensions_bytes(d)), bytes(d))

\* a signed extrinsic decoded whose address type is (): address_bytes() is
\* Some of the empty range, not None, and the signature is one byte
C19_Witness ==
    /\ IsSome(result)
    /\ Outcome.ok
    /\ bytes(Outcome.details)[1] = 132
    /\ is_signed(Outcome.details)
    /\ address_bytes(Outcome.details) = Some(<<>>)
    /\ Len(Unwrap(signature_bytes(Outcome.details))) = 1

\* C20: for every ExtrinsicDetails decode_from returns, call_bytes() has at
\* least two bytes, the first is pallet_index() and the second
\* variant_index(), and field_bytes() is call_bytes() without the two, so
\* the range field_bytes() takes is within call_bytes().
C20_CallBytesStartWithIndices ==
    IsSome(result) /\ Outcome.ok =>
        LET d == Outcome.details
        IN  /\ Len(call_bytes(d)) >= 2
            /\ call_bytes(d)[1] = pallet_index(d)
            /\ call_bytes(d)[2] = variant_index(d)
            /\ call_bytes(d) = <<pallet_index(d), variant_index(d)>> \o field_bytes(d)
            /\ d.call_start_idx + 2 <= Len(bytes(d))

\* an unsigned extrinsic decoded whose call is the two index bytes alone:
\* field_bytes() is empty
C20_Witness ==
    /\ IsSome(result)
    /\ Outcome.ok
    /\ ~is_signed(Outcome.details)
    /\ call_bytes(Outcome.details) = <<4, 132>>
    /\ pallet_index(Outcome.details) = 4
    /\ variant_index(Outcome.details) = 132
    /\ field_bytes(Outcome.details) = <<>>

-----------------------------------------------------------------------------
(* Claims about the sequences of Extrinsics::iter *)

\* the number of Ok items among the items out
OkCount(out) == Cardinality({n \in DOMAIN out : IsSome(out[n]) /\ Unwrap(out[n]).ok})

\* C21: every iterator of iter() has its own position, which starts at the
\* first extrinsic: whatever the other iterators of the block returned so
\* far, the first item of an iterator is the decoding of blob 0, its k-th Ok
\* item (from 0) is the k-th item it returned, is decoded from blob k and
\* reports index() = k, and its position is the number of Ok items it
\* returned, or the length of the block once it returned an error.
C21_IterStartsAtFirstExtrinsic ==
    \A i \in 1..Len(iters) :
        LET out == iters[i].out
            failed == \E n \in DOMAIN out : IsSome(out[n]) /\ ~Unwrap(out[n]).ok
        IN  /\ Len(out) >= 1 /\ Len(extrinsics) >= 1 => out[1] = Some(DecodeBlob(0))
            /\ \A n \in DOMAIN out :
                   IsSome(out[n]) /\ Unwrap(out[n]).ok =>
                       /\ OkCount(SubSeq(out, 1, n)) = n
                       /\ out[n] = Some(DecodeBlob(n - 1))
                       /\ index(Unwrap(out[n]).details) = n - 1
                       /\ bytes(Unwrap(out[n]).details) =
                              strip_compact_prefix(extrinsics[n]).rest
            /\ iters[i].it.index = IF failed THEN Len(extrinsics) ELSE OkCount(out)
            /\ iters[i].it.num_extrinsics = Len(extrinsics)

\* C21 witness: the iterator obtained first returned an Ok and then an
\* error, the one obtained after it returned the Ok of blob 0 and the Ok of
\* blob 1 is not what either returns second
C21_Witness ==
    /\ Len(iters) = 2
    /\ Len(iters[1].out) = 2
    /\ IsSome(iters[1].out[1]) /\ Unwrap(iters[1].out[1]).ok
    /\ IsSome(iters[1].out[2]) /\ ~Unwrap(iters[1].out[2]).ok
    /\ iters[1].it.index = Len(extrinsics)
    /\ Len(extrinsics) = 3
    /\ Len(iters[2].out) = 1
    /\ IsSome(iters[2].out[1]) /\ Unwrap(iters[2].out[1]).ok
    /\ index(Unwrap(iters[2].out[1]).details) = 0
    /\ iters[2].it.index = 1

-----------------------------------------------------------------------------
(* Claims about the cache of get_type_hash *)

\* the type ids in the cache once get_type_hash returned for id, where the
\* call was made while the type `within` was being hashed
VisitedThrough(types, within, id) ==
    DOMAIN get_type_hash(types, id, cache_insert(EmptyCache, within, CachedHash_Recursive)).cache.entries

\* C22: a struct of two fields was hashed from an empty cache, its second
\* field is of type A, and A and another type B refer to each other and
\* were both visited while the first field was hashed: the digest is not
\* the digest of the struct whose second field is of type B, so the second
\* field contributed the finished digest of its type and not the one value
\* a type in progress stands for.
C22_VisitedTypeKeepsOwnDigest ==
    FreshCall /\ metadata.types[Unwrap(ret).id].kind = "Composite"
              /\ Len(metadata.types[Unwrap(ret).id].fields) = 2 =>
        LET types == metadata.types
            root == Unwrap(ret).id
            visited == VisitedThrough(types, root, types[root].fields[1].ty)
        IN  \A A, B \in (DOMAIN types) \ {root} :
                /\ A # B
                /\ RefersTo(types, A, B) /\ RefersTo(types, B, A)
                /\ types[root].fields[2].ty = A
                /\ {A, B} \subseteq visited
                => /\ TypeHashOf([types EXCEPT ![root].fields[2].ty = B], root) # Unwrap(ret).hash
                   /\ cache.entries[A].tag = "Hash"
                   /\ cache.entries[A].hash # CachedHash_hash(CachedHash_Recursive)

\* C22 witness: tests::Aba as the struct { x: A, y: A } over tests::A and
\* tests::B was hashed from an empty cache
C22_Witness ==
    /\ FreshCall
    /\ Unwrap(ret).id = 0
    /\ metadata.types = Registry(<<Composite(<<Field(Some(StrX), 1), Field(Some(StrY), 1)>>),
                                   Composite(<<Field(Some(StrB), 2)>>),
                                   Composite(<<Field(Some(StrA), 1)>>)>>)
    /\ 2 \in VisitedThrough(metadata.types, 0, 1)

-----------------------------------------------------------------------------
(* Claims about the digests of arrays, enums and structs *)

\* lengths of arrays (u32): small ones, ones that agree in their low
\* bytes, and one with every byte set
ArrayLens == {0, 1, 2, 256, 257, 258, 65537, 16777217, 2147483647}

\* C23: an array type hashed from an empty cache has another digest than
\* the array of the same element type and any other length: the four bytes
\* of the length are part of what is hashed.
C23_ArrayLengthChangesTypeHash ==
    FreshCall /\ metadata.types[Unwrap(ret).id].kind = "Array" =>
        \A n \in ArrayLens \ {metadata.types[Unwrap(ret).id].len} :
            /\ TypeHashOf([metadata.types EXCEPT ![Unwrap(ret).id].len = n], Unwrap(ret).id)
                   # Unwrap(ret).hash
            /\ \A m \in ArrayLens \ {n} :
                   TypeHashOf([metadata.types EXCEPT ![Unwrap(ret).id].len = n], Unwrap(ret).id)
                       # TypeHashOf([metadata.types EXCEPT ![Unwrap(ret).id].len = m],
                                    Unwrap(ret).id)

\* C23 witness: the array [T; 1] was hashed from an empty cache, where T is
\* a struct that has the array as its field
C23_Witness ==
    /\ FreshCall
    /\ metadata.types[Unwrap(ret).id] = ArrayDef(1, 1)
    /\ RefersTo(metadata.types, 1, Unwrap(ret).id)
    /\ 257 \in ArrayLens

\* the values the index of a variant is changed to (u8)
IndexChoices == {0, 1, 7, 255}

\* the registries that differ from types in the indices of the variants of
\* one enum
Reindexings(types) ==
    UNION { {[types EXCEPT ![t].variants =
                  [v \in DOMAIN types[t].variants |-> [types[t].variants[v] EXCEPT !.index = ix[v]]]] :
                 ix \in [DOMAIN types[t].variants -> IndexChoices]}
            : t \in {t \in DOMAIN types : types[t].kind = "Variant"} }

\* C26: changing the indices of the variants of an enum of the registry,
\* names and fields kept, leaves the digest get_type_hash returns from an
\* empty cache unchanged, for the enum and for every type that refers to it.
C26_VariantIndexKeepsTypeHash ==
    FreshCall =>
        \A reindexed \in Reindexings(metadata.types) :
            TypeHashOf(reindexed, Unwrap(ret).id) = Unwrap(ret).hash

\* C26 witness: an enum of two variants with the indices 0 and 1 was hashed
\* from an empty cache, and the enum with the indices 255 and 7 is among
\* the registries compared
C26_Witness ==
    /\ FreshCall
    /\ metadata.types[Unwrap(ret).id].kind = "Variant"
    /\ Len(metadata.types[Unwrap(ret).id].variants) = 2
    /\ metadata.types[Unwrap(ret).id].variants[2].index = 1
    /\ [metadata.types EXCEPT ![Unwrap(ret).id].variants[1].index = 255,
                              ![Unwrap(ret).id].variants[2].index = 7]
           \in Reindexings(metadata.types)

\* the type ids of the primitives of the registry: the digest of such a
\* type is the same wherever it is met
PrimitiveIds(types) == {t \in DOMAIN types : types[t].kind = "Primitive"}

\* the lists of fields a struct or a variant is compared with: up to
\* MaxFields fields, unnamed or named a or b, of the primitives of the registry
MaxFields == 3
FieldLists(types) ==
    SeqsUpTo({Field(n, t) : n \in {None, Some(StrA), Some(StrB)}, t \in PrimitiveIds(types)},
             MaxFields)

\* the multiset of the (name, digest of the type) pairs of fields, as the
\* function from each pair to the number of fields it stands for
PairsOf(types, fields) ==
    LET pair(f) == <<f.name, TypeHashOf(types, f.ty)>>
    IN  [p \in {pair(fields[k]) : k \in DOMAIN fields} |->
            Cardinality({k \in DOMAIN fields : pair(fields[k]) = p})]

\* the fields of types are all of primitive types
OfPrimitives(types, fields) == \A k \in DOMAIN fields : fields[k].ty \in PrimitiveIds(types)

\* C30: a struct, or an enum, hashed from an empty cache has another digest
\* than the struct whose fields, or the enum one of whose variants has
\* fields, with another multiset of (name, digest of the type) pairs, the
\* fields being of primitive types; and another digest than the struct or
\* enum with one more field of any type of the registry.
C30_FieldMultisetDecidesDigest ==
    FreshCall =>
        LET types == metadata.types
            root == Unwrap(ret).id
        IN  /\ types[root].kind = "Composite" /\ OfPrimitives(types, types[root].fields) =>
                   \A fields \in FieldLists(types) :
                       PairsOf(types, fields) # PairsOf(types, types[root].fields) =>
                           TypeHashOf([types EXCEPT ![root].fields = fields], root)
                               # Unwrap(ret).hash
            /\ \A v \in DOMAIN types[root].variants :
                   OfPrimitives(types, types[root].variants[v].fields) =>
                       \A fields \in FieldLists(types) :
                           PairsOf(types, fields) # PairsOf(types, types[root].variants[v].fields) =>
                               TypeHashOf([types EXCEPT ![root].variants[v].fields = fields], root)
                                   # Unwrap(ret).hash
            /\ types[root].kind = "Composite" =>
                   \A n \in {None, Some(StrA), Some(StrB)}, t \in DOMAIN types :
                       TypeHashOf([types EXCEPT ![root].fields = Append(@, Field(n, t))], root)
                           # Unwrap(ret).hash

\* C30 witness: the tuple struct (u8, u8) was hashed from an empty cache,
\* and its digest is that of the struct without fields
C30_Witness ==
    /\ FreshCall
    /\ Unwrap(ret).id = 0
    /\ metadata.types[0] = Composite(<<Field(None, 1), Field(None, 1)>>)
    /\ metadata.types[1] = Primitive("u8")
    /\ <<>> \in FieldLists(metadata.types)
    /\ PairsOf(metadata.types, <<>>) # PairsOf(metadata.types, metadata.types[0].fields)
    /\ TypeHashOf([metadata.types EXCEPT ![0].fields = <<>>], 0) = Unwrap(ret).hash

-----------------------------------------------------------------------------
(* Claims about get_extrinsic_hash and get_constant_hash *)

\* the signed extensions lists are made of: two identifiers, and as extra
\* and additional types u8, tests::A, tests::B and ()
ExtensionChoices ==
    {SignedExtension(n, t, 0) : n \in {StrX, StrY}, t \in {1, 2}}
        \cup {SignedExtension(StrX, 3, 0), SignedExtension(StrX, 1, 2)}

MaxExtensions == 2
ExtensionLists == SeqsUpTo(ExtensionChoices, MaxExtensions)

\* the sequence s with the members at i and j swapped
Swapped(s, i, j) == [s EXCEPT ![i] = s[j], ![j] = s[i]]

\* two signed extensions differ in the identifier or in the digest of the
\* extra or of the additional type
ExtensionsDiffer(types, x, y) ==
    \/ x.identifier # y.identifier
    \/ TypeHashOf(types, x.extra_ty) # TypeHashOf(types, y.extra_ty)
    \/ TypeHashOf(types, x.additional_ty) # TypeHashOf(types, y.additional_ty)

\* the snapshot md with the signed extensions exts
WithExtensions(md, exts) == [md EXCEPT !.extrinsic.signed_extensions = exts]

\* C24: for every list of signed extensions, swapping two that differ in
\* identifier, extra type or additional type changes what
\* get_extrinsic_hash returns, and swapping the two signed extensions of
\* the snapshot that was hashed changes the digest of the snapshot.
C24_ExtensionOrderChangesHash ==
    IsSome(ret) /\ hasher = NoHasher =>
        /\ \A exts \in ExtensionLists :
               \A i, j \in DOMAIN exts :
                   i < j /\ ExtensionsDiffer(metadata.types, exts[i], exts[j]) =>
                       get_extrinsic_hash(metadata.types, WithExtensions(metadata, exts).extrinsic)
                           # get_extrinsic_hash(metadata.types,
                                 WithExtensions(metadata, Swapped(exts, i, j)).extrinsic)
        /\ \A i, j \in DOMAIN metadata.extrinsic.signed_extensions :
               i < j /\ ExtensionsDiffer(metadata.types, metadata.extrinsic.signed_extensions[i],
                                         metadata.extrinsic.signed_extensions[j]) =>
                   MetadataHasher_hash(hasher,
                       WithExtensions(metadata, Swapped(metadata.extrinsic.signed_extensions, i, j)))
                       # Unwrap(ret)

\* C24 witness: a snapshot with pallets and the signed extensions
\* (x, u8, ()) and (y, A, u8) was hashed, and the lists compared have one
\* of two extensions that differ only in the extra types A and B
C24_Witness ==
    /\ IsSome(ret)
    /\ hasher = NoHasher
    /\ Len(metadata.pallets) = 2
    /\ metadata.extrinsic.signed_extensions
           = <<SignedExtension(StrX, 1, 0), SignedExtension(StrY, 2, 1)>>
    /\ <<SignedExtension(StrX, 2, 0), SignedExtension(StrX, 3, 0)>> \in ExtensionLists
    /\ ExtensionsDiffer(metadata.types, SignedExtension(StrX, 2, 0), SignedExtension(StrX, 3, 0))

\* the values the stored value of a constant is changed to
ValueChoices == {<<>>, <<0>>, <<7>>, <<1, 2>>}

\* the snapshots that differ from md in the value of the constants of the
\* k-th pallet
Revaluings(md, k) ==
    {[md EXCEPT ![ "pallets" ][k].constants =
          [c \in DOMAIN md.pallets[k].constants |-> [md.pallets[k].constants[c] EXCEPT !.value = vs[c]]]] :
         vs \in [DOMAIN md.pallets[k].constants -> ValueChoices]}

\* the positions of the constants of the k-th pallet that have the name
ConstantsNamed(k, constant_name) ==
    {c \in DOMAIN metadata.pallets[k].constants :
         metadata.pallets[k].constants[c].name = constant_name}

\* C25: get_constant_hash returns None exactly when the pallet has no
\* constant of the name; otherwise it returns the digest get_type_hash
\* gives for the type of that constant from an empty cache, and returns the
\* same for the pallet with the values of its constants changed.
C25_ConstantHashIsTypeHash ==
    IsSome(result) =>
        LET asked == Unwrap(result)
            named == ConstantsNamed(asked.pallet, asked.name)
        IN  /\ asked.hash = None <=> named = {}
            /\ \A c \in named :
                   asked.hash = Some(TypeHashOf(metadata.types,
                                         metadata.pallets[asked.pallet].constants[c].ty))
            /\ \A revalued \in Revaluings(metadata, asked.pallet) :
                   get_constant_hash(pallets(revalued)[asked.pallet], asked.name) = asked.hash

\* C25 witness: the pallet Test, the third of the snapshot, was asked for
\* its constant a, of type u8 and value 7, and is compared with the pallet
\* where a has the value 1, 2
C25_Witness ==
    /\ IsSome(result)
    /\ Unwrap(result).pallet = 3
    /\ Unwrap(result).name = StrA
    /\ IsSome(Unwrap(result).hash)
    /\ metadata.pallets[3].constants[1] = ConstantMetadata(StrA, 1, <<7>>)
    /\ \E revalued \in Revaluings(metadata, 3) : revalued.pallets[3].constants[1].value = <<1, 2>>

\* the cache that holds the map entries and no history
CacheOf(entries) == [EmptyCache EXCEPT !.entries = entries]

\* C27: every get_type_hash call that found its id marked Recursive, made
\* again on the map as it was found, returns [123; 32] whatever the id and
\* leaves the map as it was; no cache.insert stored [123; 32] as a digest,
\* and every cache.insert either marked an absent id Recursive or replaced
\* the Recursive mark of an id by its digest.
C27_InProgressGivesSentinel ==
    /\ \A n \in DOMAIN cache.hits :
           LET found == cache.hits[n]
               again == get_type_hash(metadata.types, found.id, CacheOf(found.entries))
           IN  /\ found.entries[found.id] = CachedHash_Recursive
               /\ again.hash = Filled(123)
               /\ again.cache.entries = found.entries
               /\ again.cache.inserts = <<>>
               /\ \A k \in DOMAIN found.entries :
                      found.entries[k].tag = "Hash" => found.entries[k].hash # Filled(123)
    /\ \A n \in DOMAIN cache.inserts :
           LET insert == cache.inserts[n]
           IN  /\ \/ insert.from = "Absent" /\ insert.to = CachedHash_Recursive
                  \/ insert.from = "Recursive" /\ insert.to.tag = "Hash"
               /\ insert.to.tag = "Hash" => insert.to.hash # Filled(123)
    /\ \A k \in DOMAIN cache.entries :
           cache.entries[k].tag = "Hash" => cache.entries[k].hash # Filled(123)

\* C27 witness: within one cache two calls found their id marked
\* Recursive, for two ids, the second while the digest of the first id was
\* in the map
C27_Witness ==
    /\ Len(cache.hits) >= 2
    /\ cache.hits[1].id # cache.hits[2].id
    /\ cache.hits[1].id \in DOMAIN cache.hits[2].entries
    /\ cache.hits[2].entries[cache.hits[1].id].tag = "Hash"
    /\ Len(cache.inserts) = 2 * Len(cache.expanded)

\* the type ids that can be reached from id through the definitions
RECURSIVE ReachableFrom(_, _, _)
ReachableFrom(types, todo, seen) ==
    IF todo = {} THEN seen
    ELSE LET next == {a \in DOMAIN types : \E b \in todo : RefersTo(types, b, a)} \ (seen \cup todo)
         IN  ReachableFrom(types, next, seen \cup todo)

\* C28: once a get_type_hash call made by the owner of the cache returned,
\* the map holds a digest and no Recursive mark for the id and for every id
\* it holds, among them every type that can be reached from the id; the
\* digest stored for the id is the one returned; and the same call again
\* returns that digest and leaves the cache as it is.
C28_ReturnedCallLeavesFinishedDigests ==
    IsSome(ret) =>
        LET id == Unwrap(ret).id
            again == get_type_hash(metadata.types, id, cache)
        IN  /\ \A k \in DOMAIN cache.entries : cache.entries[k].tag = "Hash"
            /\ ReachableFrom(metadata.types, {id}, {}) \subseteq DOMAIN cache.entries
            /\ DOMAIN Unwrap(ret).before.entries \subseteq DOMAIN cache.entries
            /\ cache.entries[id] = CachedHash_Hash(Unwrap(ret).hash)
            /\ again.hash = Unwrap(ret).hash
            /\ again.cache = cache

\* C28 witness: a call from an empty cache returned for a type on a cycle
\* through every type of the registry
C28_Witness ==
    /\ FreshCall
    /\ Cardinality(DOMAIN cache.entries) = Cardinality(DOMAIN metadata.types)
    /\ Len(cache.hits) >= 1
    /\ cache.hits[1].id = Unwrap(ret).id
    /\ cache.deepest = Cardinality(DOMAIN metadata.types)

\* C29: the digest a get_type_hash call returns is the digest the call
\* returns from an empty cache, whatever calls filled the cache before.
C29_CacheIsTransparent ==
    IsSome(ret) => Unwrap(ret).hash = TypeHashOf(metadata.types, Unwrap(ret).id)

\* C29 witness: tests::B was hashed with the cache that hashing tests::A
\* left, and the digest returned is not the one an empty cache gives
C29_Witness ==
    /\ IsSome(ret)
    /\ Unwrap(ret).id = 2
    /\ metadata.types[1] = Composite(<<Field(Some(StrB), 2)>>)
    /\ metadata.types[2] = Composite(<<Field(Some(StrA), 1)>>)
    /\ Unwrap(ret).before.expanded = <<1, 2>>
    /\ Unwrap(ret).hash # TypeHashOf(metadata.types, 2)

=============================================================================
